---- MODULE Spec2Model ----
(***************************************************************************)
(* Criminal background-check decision core: CriminalCheckProcessor         *)
(* (engine_core/CriminalCheck.py).  A processor is constructed from a      *)
(* configuration, then process_criminal_check is called on record          *)
(* documents and returns the five-bucket mapping, or raises.               *)
(*                                                                         *)
(* Representation                                                          *)
(*   - dict / JSON object : a record; a missing key is a missing field and *)
(*     dict.get(k, default) is Get.                                        *)
(*   - list               : a sequence.                                    *)
(*   - datetime           : [day |-> proleptic ordinal, tod |-> 0 or 1],   *)
(*     tod = 0 is midnight exactly and tod = 1 any later time of that day. *)
(*   - float score        : an integer number of thousandths, so that      *)
(*     round(x, 2) is a real operation (the result is a multiple of 10).   *)
(*   - f-string reason    : the tuple of its pieces.                       *)
(***************************************************************************)
EXTENDS Integers, Sequences, FiniteSets, TLC

VARIABLES
    config,          \* self.config
    lookback_years,  \* self.lookback_years
    cutoff_date,     \* self.cutoff_date
    now,             \* the clock read by datetime.now()
    data,            \* the document handed to process_criminal_check
    results,         \* the mapping the call returned
    phase,           \* "unbuilt" before construction and "failed" after a
                     \* construction that raised, "ready", or the outcome of
                     \* the call: "returned",
                     \* "raised", "classified", "assessed", "recommended",
                     \* "summarised"
    level_score,     \* _determine_risk_level called alone: its risk_score
    level_category,  \* _determine_risk_level called alone: its category
    level_result,    \* _determine_risk_level called alone: the level returned
    processed_cases, \* the mapping handed to get_summary and to the engine's
                     \* _calculate_overall_risk and _generate_recommendation
    overall_risk,    \* the level _calculate_overall_risk returned, or the
                     \* level handed to _generate_recommendation
    recommendation,  \* the text _generate_recommendation returned
    summary,         \* the mapping get_summary returned
    history,         \* the calls of process_criminal_check made on the
                     \* document in hand, the last two of them: when each
                     \* was made and what came of it
    score_call,      \* _get_csv_risk_score or _calculate_risk_score called
                     \* alone: the arguments and what came back
    seconds,         \* the clock read by datetime.now() in the API client,
                     \* in seconds since the client was constructed
    api_config,      \* the CheckrConfig of the client: access_token,
                     \* expires_in, token_issued_at, and whether client_id
                     \* and client_secret are there
    session_token,   \* the token in the Authorization header of the session,
                     \* with the issue time and the lifetime the client held
                     \* for it when the header was set
    engine_run,      \* run_complete_background_check, the call in hand: the
                     \* steps it called, the requests it sent, what the
                     \* fetch returned, and its result or its exception
    run_button,      \* the state of the Run button: "normal" or "disabled"
    export_button,   \* the state of the Export button
    rule_engine,     \* the UI has built its rule engine
    threads_started, \* the worker threads started so far
    worker_threads,  \* the worker threads inside
                     \* run_complete_background_check
    after_queue,     \* the callbacks scheduled with root.after(0, ...), in
                     \* order: display_results or handle_error, and the
                     \* thread that scheduled it
    dialogs,         \* the message boxes open
    current_result   \* self.current_result: the thread whose result is shown

\* the processor and the calls made on it
processorVars ==
    <<config, lookback_years, cutoff_date, now, data, results, phase,
      level_score, level_category, level_result,
      processed_cases, overall_risk, recommendation, summary, history>>

\* what the calls on the processor as a whole leave alone
\* the API client and the engine
engineVars == <<seconds, api_config, session_token, engine_run>>

\* the desktop UI
uiVars == <<run_button, export_button, rule_engine, threads_started,
            worker_threads, after_queue, dialogs, current_result>>

otherVars == <<score_call, engineVars, uiVars>>

\* what a scoring helper called alone leaves alone
exceptScoreCall == <<processorVars, engineVars, uiVars>>

\* what the UI leaves alone
exceptUi == <<processorVars, score_call, engineVars>>

vars == <<processorVars, otherVars>>

----------------------------------------------------------------------------
(* Python built-ins *)

Get(d, k, default) == IF k \in DOMAIN d THEN d[k] ELSE default

\* str.lower() on the texts the model uses
Lower(s) ==
    CASE s = "Criminal/traffic" -> "criminal/traffic"
      [] s = "CRIMINAL/TRAFFIC" -> "criminal/traffic"
      [] s = "Civil" -> "civil"
      [] s = "Misdemeanor" -> "misdemeanor"
      [] s = "FELONY" -> "felony"
      [] s = "Felony" -> "felony"
      [] s = "Conviction" -> "conviction"
      [] s = "CONVICTION" -> "conviction"
      [] s = "Pending" -> "pending"
      [] s = "Dismissed" -> "dismissed"
      [] s = "Unclassified" -> "unclassified"
      [] s = "UNCLASSIFIED" -> "unclassified"
      [] s = "Vehicles & Traffic" -> "vehicles & traffic"
      [] s = "Violence" -> "violence"
      [] s = "Zoning" -> "zoning"
      [] s = "Statutory" -> "statutory"
      [] s = "Speeding" -> "speeding"
      [] s = "License" -> "license"
      [] s = "N/A" -> "n/a"
      [] s = "VEHICLES & TRAFFIC" -> "vehicles & traffic"
      [] s = "Criminal Intent" -> "criminal intent"
      [] s = "VIOLENCE" -> "violence"
      [] s = "Sexual" -> "sexual"
      [] s = "Homicide" -> "homicide"
      [] s = "Fraud & Deception" -> "fraud & deception"
      [] s = "Drugs & Alcohol" -> "drugs & alcohol"
      [] s = "Theft & Property" -> "theft & property"
      [] s = "Security" -> "security"
      [] s = "SPEEDING" -> "speeding"
      [] s = "License & Registration" -> "license & registration"
      [] s = "Traffic Violations" -> "traffic violations"
      [] s = "Reckless Driving" -> "reckless driving"
      [] s = "Accessory" -> "accessory"
      [] s = "Court Orders" -> "court orders"
      [] s = "Assault" -> "assault"
      [] OTHER -> s

\* The characters of a date text, a digit as its value and any other
\* character as -1.
Chars(s) ==
    CASE s = "" -> <<>>
      [] s = "20261001" -> <<2, 0, 2, 6, 1, 0, 0, 1>>
      [] s = "20270101" -> <<2, 0, 2, 7, 0, 1, 0, 1>>
      [] s = "20261104" -> <<2, 0, 2, 6, 1, 1, 0, 4>>
      [] s = "20251105" -> <<2, 0, 2, 5, 1, 1, 0, 5>>
      [] s = "20251104" -> <<2, 0, 2, 5, 1, 1, 0, 4>>
      [] s = "20251103" -> <<2, 0, 2, 5, 1, 1, 0, 3>>
      [] s = "20231106" -> <<2, 0, 2, 3, 1, 1, 0, 6>>
      [] s = "20231105" -> <<2, 0, 2, 3, 1, 1, 0, 5>>
      [] s = "20231104" -> <<2, 0, 2, 3, 1, 1, 0, 4>>
      [] s = "20211106" -> <<2, 0, 2, 1, 1, 1, 0, 6>>
      [] s = "20211105" -> <<2, 0, 2, 1, 1, 1, 0, 5>>
      [] s = "20211104" -> <<2, 0, 2, 1, 1, 1, 0, 4>>
      [] s = "20240301" -> <<2, 0, 2, 4, 0, 3, 0, 1>>
      [] s = "20221201" -> <<2, 0, 2, 2, 1, 2, 0, 1>>
      [] s = "20200615" -> <<2, 0, 2, 0, 0, 6, 1, 5>>
      [] s = "20191107" -> <<2, 0, 1, 9, 1, 1, 0, 7>>
      [] s = "20191106" -> <<2, 0, 1, 9, 1, 1, 0, 6>>
      [] s = "20191105" -> <<2, 0, 1, 9, 1, 1, 0, 5>>
      [] s = "20160623" -> <<2, 0, 1, 6, 0, 6, 2, 3>>
      [] s = "20230230" -> <<2, 0, 2, 3, 0, 2, 3, 0>>
      [] s = "20221301" -> <<2, 0, 2, 2, 1, 3, 0, 1>>
      [] s = "N/A" -> <<-1, -1, -1>>
      [] OTHER -> <<-1>>

Min(S) == CHOOSE m \in S : \A n \in S : m <= n

\* round(x, 2) on a value in thousandths: to the nearest multiple of 10,
\* a tie to the even hundredth (the ties the score formula produces are
\* exact in binary floating point).
Round2(x) ==
    LET q == x \div 10
        r == x % 10
    IN  IF r < 5 THEN q * 10
        ELSE IF r > 5 THEN (q + 1) * 10
        ELSE IF q % 2 = 0 THEN q * 10 ELSE (q + 1) * 10

\* a score or threshold given in whole points, in thousandths
Points(v) == v * 1000

----------------------------------------------------------------------------
(* datetime *)

IsLeap(y) == (y % 4 = 0 /\ y % 100 # 0) \/ y % 400 = 0

DaysInMonth(y, m) ==
    IF m \in {4, 6, 9, 11} THEN 30
    ELSE IF m = 2 THEN (IF IsLeap(y) THEN 29 ELSE 28)
    ELSE 31

RECURSIVE DaysBeforeMonth(_, _)
DaysBeforeMonth(y, m) ==
    IF m <= 1 THEN 0 ELSE DaysBeforeMonth(y, m - 1) + DaysInMonth(y, m - 1)

\* date.toordinal(): days since 0001-01-01, that day being 1
ToOrdinal(y, m, d) ==
    LET p == y - 1
    IN  p * 365 + (p \div 4) - (p \div 100) + (p \div 400)
        + DaysBeforeMonth(y, m) + d

DateTime(y, m, d, t) == [day |-> ToOrdinal(y, m, d), tod |-> t]

\* a >= b on datetimes
DtGeq(a, b) == a.day > b.day \/ (a.day = b.day /\ a.tod >= b.tod)

\* the days of the difference, a day that has begun counted whole
DeltaDays_StartedDay(a, b) == a.day - b.day + (IF a.tod > b.tod THEN 1 ELSE 0)

\* (a - b).days: the whole days of the difference, rounded down
DeltaDays(a, b) == IF a.tod >= b.tod THEN a.day - b.day ELSE a.day - b.day - 1

\* dt - timedelta(days = n)
MinusDays(dt, n) == [day |-> dt.day - n, tod |-> dt.tod]

----------------------------------------------------------------------------
(* CriminalCheckProcessor: the helpers *)

\* the date of the fields of a YYYYMMDD text, at midnight, or ValueError
\* when there is no such day
ParseFields(y, m, d) ==
    IF y >= 1 /\ m \in 1..12 /\ d >= 1 /\ d <= DaysInMonth(y, m)
    THEN [exc |-> "none", value |-> DateTime(y, m, d, 0)]
    ELSE [exc |-> "ValueError"]

\* Texts of eight digits are read as YYYYMMDD; every other text of the
\* model is rejected.
ParseChars(c) ==
    IF Len(c) = 8 /\ \A i \in 1..8 : c[i] \in 0..9
    THEN ParseFields(c[1] * 1000 + c[2] * 100 + c[3] * 10 + c[4],
                     c[5] * 10 + c[6], c[7] * 10 + c[8])
    ELSE [exc |-> "ValueError"]

\* datetime.strptime(date_str, "%Y%m%d"): [exc, value]
_parse_date(date_str) == ParseChars(Chars(date_str))

\* mutant: the cutoff is taken from the clock at each check
IsWithinLookback_FromNow(offense_date) ==
    LET p == _parse_date(offense_date)
    IN  IF p.exc = "none"
        THEN DtGeq(p.value, MinusDays(now, lookback_years * 365))
        ELSE FALSE

_is_within_lookback(offense_date) ==
    LET p == _parse_date(offense_date)
    IN  IF p.exc = "none" THEN DtGeq(p.value, cutoff_date) ELSE FALSE

\* the loop "for r in rules: if r[key].lower() == text.lower(): return r"
FirstMatch(rules, key, text) ==
    LET hits == {i \in 1..Len(rules) : Lower(rules[i][key]) = Lower(text)}
    IN  IF hits = {} THEN 0 ELSE Min(hits)

\* mutant: a matching rule enables the category whatever its flag
IsRecordCategoryEnabled_AnyMatch(cat) ==
    FirstMatch(config.record_categories.categories, "category", cat) # 0

_is_record_category_enabled(cat) ==
    LET categories == config.record_categories.categories
        i == FirstMatch(categories, "category", cat)
    IN  IF i = 0 THEN FALSE ELSE categories[i].enabled

_is_charge_type_enabled(charge_type) ==
    LET charge_types == config.charge_classification.types
        i == FirstMatch(charge_types, "input_key", charge_type)
    IN  IF i = 0 THEN FALSE ELSE charge_types[i].enabled

_is_disposition_enabled(disposition) ==
    LET dispositions == config.disposition_filters.dispositions
        i == FirstMatch(dispositions, "input_key", disposition)
    IN  IF i = 0 THEN FALSE ELSE dispositions[i].enabled

_get_charge_type_weight(charge_type) ==
    LET charge_types == config.charge_classification.types
        i == FirstMatch(charge_types, "input_key", charge_type)
    IN  IF i = 0 THEN 1 ELSE charge_types[i].severity_weight

_get_disposition_risk_impact(disposition) ==
    LET dispositions == config.disposition_filters.dispositions
        i == FirstMatch(dispositions, "input_key", disposition)
    IN  IF i = 0 THEN "low" ELSE dispositions[i].risk_impact

risk_mapping ==
    (<<"vehicles & traffic", "license">> :> "High") @@
    (<<"vehicles & traffic", "license & registration">> :> "High") @@
    (<<"vehicles & traffic", "speeding">> :> "Low") @@
    (<<"vehicles & traffic", "traffic violations">> :> "Low") @@
    (<<"vehicles & traffic", "reckless driving">> :> "Med") @@
    (<<"criminal intent", "accessory">> :> "Low") @@
    (<<"criminal intent", "court orders">> :> "Med") @@
    (<<"violence", "">> :> "High") @@
    (<<"sexual", "">> :> "High") @@
    (<<"homicide", "">> :> "High") @@
    (<<"fraud & deception", "">> :> "Med") @@
    (<<"drugs & alcohol", "">> :> "Med") @@
    (<<"theft & property", "">> :> "Med") @@
    (<<"security", "">> :> "High") @@
    (<<"statutory", "">> :> "Low") @@
    (<<"unclassified", "">> :> "High")

high_risk_categories ==
    {"violence", "sexual", "homicide", "security", "unclassified"}

\* the lookup, were the table searched with the texts as they come
GetCsvRiskScore_CaseSensitive(cat, subcategory) ==
    LET exact == <<cat, subcategory>>
        only == <<cat, "">>
    IN  IF exact \in DOMAIN risk_mapping THEN risk_mapping[exact]
        ELSE IF only \in DOMAIN risk_mapping THEN risk_mapping[only]
        ELSE IF cat \in high_risk_categories THEN "High"
        ELSE "Med"

_get_csv_risk_score(cat, subcategory) ==
    LET exact == <<Lower(cat), Lower(subcategory)>>
        only == <<Lower(cat), "">>
    IN  IF exact \in DOMAIN risk_mapping THEN risk_mapping[exact]
        ELSE IF only \in DOMAIN risk_mapping THEN risk_mapping[only]
        ELSE IF Lower(cat) \in high_risk_categories THEN "High"
        ELSE "Med"

risk_base_scores == [High |-> 30, Med |-> 15, Low |-> 5, Unscored |-> 10]

\* impact_multipliers.get(impact, 1.0), in tenths
\* mutant: an impact outside the table counts as "none"
ImpactMultipliers_DefaultNone(impact) ==
    CASE impact = "high" -> 15
      [] impact = "medium" -> 12
      [] impact = "low" -> 10
      [] OTHER -> 5

impact_multipliers(impact) ==
    CASE impact = "high" -> 15
      [] impact = "medium" -> 12
      [] impact = "low" -> 10
      [] impact = "none" -> 5
      [] OTHER -> 10

\* the factor, were a boundary in the older band
RecencyFactor_StrictBounds(days) ==
    IF days < 1 * 365 THEN 15
    ELSE IF days < 3 * 365 THEN 12
    ELSE IF days < 5 * 365 THEN 10
    ELSE 8

\* the recency factor of an offense years_ago = days / 365 old, in tenths
recency_factor(days) ==
    IF days <= 1 * 365 THEN 15
    ELSE IF days <= 3 * 365 THEN 12
    ELSE IF days <= 5 * 365 THEN 10
    ELSE 8

\* charge.get("dispositions", [{}])[0].get("disposition_type", "unknown"):
\* IndexError on an empty list
FirstDisposition(charge) ==
    LET ds == Get(charge, "dispositions", <<[none |-> "none"]>>)
    IN  IF Len(ds) = 0 THEN [exc |-> "IndexError"]
        ELSE [exc |-> "none", value |-> Get(ds[1], "disposition_type", "unknown")]

----------------------------------------------------------------------------
(* CriminalCheckProcessor: scoring and classification *)

\* mutant: "unclassified" gets the base score of its tier
BaseScore_TierOnly(category, csv_risk_level) ==
    Get(risk_base_scores, csv_risk_level, 15)

\* risk_base_scores.get(csv_risk_level, 15), and 35 for "unclassified"
BaseScore(category, csv_risk_level) ==
    IF Lower(category) = "unclassified" THEN 35
    ELSE Get(risk_base_scores, csv_risk_level, 15)

\* The score in thousandths, or IndexError from the disposition lookup.
\* final_score = base_score * (charge_weight / 2) * disposition_multiplier
\* is base * weight * tenths * 50 thousandths, and the recency factor, in
\* tenths, multiplies it when the date parses.
_calculate_risk_score(charge, offense_date) ==
    LET category == Get(charge, "category", "Unclassified")
        subcategory == Get(charge, "subcategory", "")
        csv_risk_level == _get_csv_risk_score(category, subcategory)
        base_score == BaseScore(category, csv_risk_level)
        charge_weight == _get_charge_type_weight(Get(charge, "type", "unknown"))
        disposition == FirstDisposition(charge)
        disposition_multiplier ==
            impact_multipliers(_get_disposition_risk_impact(disposition.value))
        final_score == base_score * charge_weight * disposition_multiplier * 50
        offense_dt == _parse_date(offense_date)
        with_recency ==
            IF offense_dt.exc = "none"
            THEN (final_score * recency_factor(DeltaDays(now, offense_dt.value))) \div 10
            ELSE final_score
    IN  IF disposition.exc # "none" THEN [exc |-> disposition.exc]
        ELSE [exc |-> "none", value |-> Round2(with_recency)]

\* mutant: the thresholds alone decide, also for "unclassified"
DetermineRiskLevel_NoOverride(risk_score, category) ==
    LET thresholds == config.scoring_rules.thresholds
    IN  IF risk_score >= Points(thresholds.critical_risk.min) THEN "High"
        ELSE IF risk_score >= Points(thresholds.high_risk.min) THEN "High"
        ELSE IF risk_score >= Points(thresholds.medium_risk.min) THEN "Medium"
        ELSE "Low"

\* mutant: medium_risk.min is looked at first
DetermineRiskLevel_MediumFirst(risk_score, category) ==
    LET thresholds == config.scoring_rules.thresholds
    IN  IF Lower(category) = "unclassified" /\ risk_score > 0 THEN "High"
        ELSE IF risk_score >= Points(thresholds.medium_risk.min) THEN "Medium"
        ELSE IF risk_score >= Points(thresholds.high_risk.min) THEN "High"
        ELSE IF risk_score >= Points(thresholds.critical_risk.min) THEN "High"
        ELSE "Low"

\* mutant: high_risk.min is passed over
DetermineRiskLevel_CriticalOnly(risk_score, category) ==
    LET thresholds == config.scoring_rules.thresholds
    IN  IF Lower(category) = "unclassified" /\ risk_score > 0 THEN "High"
        ELSE IF risk_score >= Points(thresholds.critical_risk.min) THEN "High"
        ELSE IF risk_score >= Points(thresholds.medium_risk.min) THEN "Medium"
        ELSE "Low"

\* mutant: a score below low_risk.min is Clean
DetermineRiskLevel_CleanFloor(risk_score, category) ==
    LET thresholds == config.scoring_rules.thresholds
    IN  IF Lower(category) = "unclassified" /\ risk_score > 0 THEN "High"
        ELSE IF risk_score >= Points(thresholds.critical_risk.min) THEN "High"
        ELSE IF risk_score >= Points(thresholds.high_risk.min) THEN "High"
        ELSE IF risk_score >= Points(thresholds.medium_risk.min) THEN "Medium"
        ELSE IF risk_score >= Points(thresholds.low_risk.min) THEN "Low"
        ELSE "Clean"

_determine_risk_level(risk_score, category) ==
    LET thresholds == config.scoring_rules.thresholds
    IN  IF Lower(category) = "unclassified" /\ risk_score > 0 THEN "High"
        ELSE IF risk_score >= Points(thresholds.critical_risk.min) THEN "High"
        ELSE IF risk_score >= Points(thresholds.high_risk.min) THEN "High"
        ELSE IF risk_score >= Points(thresholds.medium_risk.min) THEN "Medium"
        ELSE IF risk_score >= Points(thresholds.low_risk.min) THEN "Low"
        ELSE "Low"

ProcessedCase(case_number, description, offense_date, charge_type, disposition, category, subcategory, risk_level, risk_score, reason) ==
    [case_number |-> case_number, charge_description |-> description,
     offense_date |-> offense_date, charge_type |-> charge_type,
     disposition |-> disposition, category |-> category,
     subcategory |-> subcategory, risk_level |-> risk_level,
     risk_score |-> risk_score, reason |-> reason]

ReasonLookback == <<"Outside ", ToString(lookback_years), "-year lookback period">>
ReasonChargeType(charge_type) ==
    <<"Charge type '", charge_type, "' not enabled in configuration">>
ReasonDisposition(disposition) ==
    <<"Disposition '", disposition, "' not enabled in configuration">>
ReasonProcessed == <<"Processed successfully">>

\* mutant: an ignored charge keeps the score it would have been given
IgnoredCase_Scored(charge, case_number, disposition, reason) ==
    LET score == _calculate_risk_score(charge, Get(charge, "offense_date", ""))
    IN  [exc |-> "none", should_include |-> FALSE,
         case |-> ProcessedCase(case_number, Get(charge, "description", ""),
                      Get(charge, "offense_date", ""),
                      Get(charge, "type", "unknown"), disposition,
                      Get(charge, "category", "unclassified"),
                      Get(charge, "subcategory", ""), "Ignored",
                      IF score.exc = "none" THEN score.value ELSE 0, reason)]

\* the pair returned for a charge that fails a check
IgnoredCase(charge, case_number, disposition, reason) ==
    [exc |-> "none", should_include |-> FALSE,
     case |-> ProcessedCase(case_number, Get(charge, "description", ""),
                            Get(charge, "offense_date", ""),
                            Get(charge, "type", "unknown"), disposition,
                            Get(charge, "category", "unclassified"),
                            Get(charge, "subcategory", ""), "Ignored", 0, reason)]

\* the pair returned for a charge that passed the checks, score being what
\* _calculate_risk_score gave
ScoredCase(charge, case_number, disposition, score) ==
    IF score.exc # "none" THEN [exc |-> score.exc]
    ELSE [exc |-> "none", should_include |-> TRUE,
          case |-> ProcessedCase(case_number, Get(charge, "description", ""),
                       Get(charge, "offense_date", ""),
                       Get(charge, "type", "unknown"), disposition,
                       Get(charge, "category", "unclassified"),
                       Get(charge, "subcategory", ""),
                       _determine_risk_level(score.value,
                           Get(charge, "category", "unclassified")),
                       score.value, ReasonProcessed)]

\* the three checks, in the order of the code, on a charge whose first
\* disposition type is disposition
CheckCharge(charge, case_number, disposition) ==
    IF ~_is_within_lookback(Get(charge, "offense_date", ""))
    THEN IgnoredCase(charge, case_number, disposition, ReasonLookback)
    ELSE IF ~_is_charge_type_enabled(Get(charge, "type", "unknown"))
    THEN IgnoredCase(charge, case_number, disposition,
                     ReasonChargeType(Get(charge, "type", "unknown")))
    ELSE IF ~_is_disposition_enabled(disposition)
    THEN IgnoredCase(charge, case_number, disposition,
                     ReasonDisposition(disposition))
    ELSE ScoredCase(charge, case_number, disposition,
                    _calculate_risk_score(charge, Get(charge, "offense_date", "")))

\* [exc, case, should_include]: the pair the method returns, or the
\* exception it raises.  The fields are read first, the first disposition
\* among them, before any check.
_process_charge(charge, case_number) ==
    LET disposition == FirstDisposition(charge)
    IN  IF disposition.exc # "none" THEN [exc |-> disposition.exc]
        ELSE CheckCharge(charge, case_number, disposition.value)

----------------------------------------------------------------------------
(* CriminalCheckProcessor.process_criminal_check *)

RECURSIVE Flatten(_)
Flatten(ss) == IF ss = <<>> THEN <<>> ELSE Head(ss) \o Flatten(Tail(ss))

SyntheticClean(description, reason) ==
    ProcessedCase("N/A", description, "N/A", "N/A", "N/A", "N/A", "N/A",
                  "Clean", 0, <<reason>>)

\* mutant: only the first charge of a case is processed
ChargesOfCase_FirstOnly(case) ==
    LET charges == Get(case, "charges", <<>>)
    IN  [i \in 1..(IF Len(charges) > 0 THEN 1 ELSE 0) |->
            [charge |-> charges[i],
             case_number |-> Get(case, "case_number", "unknown")]]

\* the (charge, case_number) pairs of one case, in the order of its loop
ChargesOfCase(case) ==
    LET charges == Get(case, "charges", <<>>)
    IN  [i \in 1..Len(charges) |->
            [charge |-> charges[i],
             case_number |-> Get(case, "case_number", "unknown")]]

\* the charges the three nested loops reach, in order: a result whose
\* category is not enabled is skipped with all its cases
ChargesWalked(d) ==
    LET enabled == SelectSeq(d.results,
            LAMBDA result : _is_record_category_enabled(Get(result, "category", "")))
        OfResult(result) ==
            LET cases == Get(result, "cases", <<>>)
            IN  Flatten([j \in 1..Len(cases) |-> ChargesOfCase(cases[j])])
    IN  Flatten([i \in 1..Len(enabled) |-> OfResult(enabled[i])])

\* what _process_charge gives for each charge walked
Outcomes(walked) ==
    [i \in 1..Len(walked) |->
        _process_charge(walked[i].charge, walked[i].case_number)]

\* the cases appended to results[level], in order
\* mutant: every scored case is filed under Low
Bucket_ScoredUnderLow(out, level) ==
    LET hit == SelectSeq(out, LAMBDA o :
                   IF level = "Ignored" THEN o.case.risk_level = "Ignored"
                   ELSE level = "Low" /\ o.case.risk_level # "Ignored")
    IN  [i \in 1..Len(hit) |-> hit[i].case]

Bucket(out, level) ==
    LET hit == SelectSeq(out, LAMBDA o : o.case.risk_level = level)
    IN  [i \in 1..Len(hit) |-> hit[i].case]

Buckets(out) ==
    [Ignored |-> Bucket(out, "Ignored"), Low |-> Bucket(out, "Low"),
     Medium |-> Bucket(out, "Medium"), High |-> Bucket(out, "High"),
     Clean |-> Bucket(out, "Clean")]

\* mutant: the made-up entry is added whenever nothing was scored
WithClean_IgnoredForgotten(walk, processed_any) ==
    IF /\ ~processed_any
       /\ walk.Low = <<>> /\ walk.Medium = <<>> /\ walk.High = <<>>
    THEN [walk EXCEPT !.Clean =
            @ \o <<SyntheticClean("No qualifying criminal records found",
                                  "No records meet the configured criteria")>>]
    ELSE walk

\* the closing step: the synthetic entry when nothing was processed,
\* nothing is in Low, Medium or High, and nothing was ignored
WithClean(walk, processed_any) ==
    IF /\ ~processed_any
       /\ walk.Low = <<>> /\ walk.Medium = <<>> /\ walk.High = <<>>
       /\ walk.Ignored = <<>>
    THEN [walk EXCEPT !.Clean =
            @ \o <<SyntheticClean("No qualifying criminal records found",
                                  "No records meet the configured criteria")>>]
    ELSE walk

\* the loops over the charges walked: the first exception ends the call
Walk(out) ==
    LET raised == {i \in 1..Len(out) : out[i].exc # "none"}
    IN  IF raised # {} THEN [exc |-> out[Min(raised)].exc]
        ELSE [exc |-> "none",
              value |-> WithClean(Buckets(out),
                           \E i \in 1..Len(out) :
                               /\ out[i].case.risk_level # "Ignored"
                               /\ out[i].should_include)]

\* mutant: the early return makes up no entry
NoHistory_NoEntry ==
    [exc |-> "none",
     value |-> [Ignored |-> <<>>, Low |-> <<>>, Medium |-> <<>>, High |-> <<>>,
                Clean |-> <<>>]]

\* the early return for a document without results
NoHistory ==
    [exc |-> "none",
     value |-> [Ignored |-> <<>>, Low |-> <<>>, Medium |-> <<>>, High |-> <<>>,
                Clean |-> <<SyntheticClean("No criminal records found",
                                           "No criminal history found")>>]]

\* mutant: only a missing results key returns early, an empty list is walked
ProcessCriminalCheck_KeyOnly(d) ==
    IF "results" \notin DOMAIN d
    THEN NoHistory
    ELSE Walk(Outcomes(ChargesWalked(d)))

\* [exc, value]: the mapping returned, or the exception raised
process_criminal_check(d) ==
    IF "results" \notin DOMAIN d \/ d.results = <<>>
    THEN NoHistory
    ELSE IF "record_categories" \notin DOMAIN config
    THEN [exc |-> "KeyError"]   \* at the first result group
    ELSE Walk(Outcomes(ChargesWalked(d)))

----------------------------------------------------------------------------
(* CriminalCheckProcessor.get_summary *)

Max(S) == CHOOSE x \in S : \A y \in S : y <= x

\* sum(len(cases) for cases in processed_results.values()), over the keys
RECURSIVE TotalCases(_, _)
TotalCases(processed_results, keys) ==
    IF keys = {} THEN 0
    ELSE LET k == CHOOSE x \in keys : TRUE
         IN  Len(processed_results[k]) + TotalCases(processed_results, keys \ {k})

\* mutant: only the High bucket is looked at for the highest score
HighestRiskScore_HighOnly(processed_results) ==
    Max({0} \cup { processed_results.High[i].risk_score :
                       i \in 1..Len(processed_results.High) })

\* the running maximum over the buckets, started at 0.0
HighestRiskScore(processed_results) ==
    Max({0} \cup UNION { { processed_results[k][i].risk_score :
                               i \in 1..Len(processed_results[k]) } :
                         k \in DOMAIN processed_results })

\* the texts appended to summary["recommendations"], in order
SummaryRecommendations(processed_results) ==
    (IF processed_results.High # <<>>
     THEN << <<"High-risk cases require immediate review">> >> ELSE <<>>)
    \o (IF processed_results.Medium # <<>>
        THEN << <<"Medium-risk cases should be evaluated">> >> ELSE <<>>)
    \o (IF processed_results.Clean # <<>>
        THEN << <<"No concerning criminal history found">> >> ELSE <<>>)
    \o (IF processed_results.Ignored # <<>>
        THEN << <<ToString(Len(processed_results.Ignored)),
                  " cases ignored due to filters">> >>
        ELSE <<>>)

get_summary(processed_results) ==
    [total_cases |-> TotalCases(processed_results, DOMAIN processed_results),
     risk_distribution |->
         [k \in DOMAIN processed_results |-> Len(processed_results[k])],
     highest_risk_score |-> HighestRiskScore(processed_results),
     recommendations |-> SummaryRecommendations(processed_results)]

----------------------------------------------------------------------------
(* CriminalBackgroundRuleEngine (engine_core/RuleCore.py) *)

\* bool(processed_cases.get(level)): the key is there and its list not empty
HasCases(cases, level) == Get(cases, level, <<>>) # <<>>

\* mutant: Low is looked at before Medium
\* mutant: ignored cases alone give the level Ignored
CalculateOverallRisk_IgnoredLevel(cases) ==
    IF HasCases(cases, "High") THEN "High"
    ELSE IF HasCases(cases, "Medium") THEN "Medium"
    ELSE IF HasCases(cases, "Low") THEN "Low"
    ELSE IF HasCases(cases, "Ignored") THEN "Ignored"
    ELSE "Clean"

CalculateOverallRisk_LowFirst(cases) ==
    IF HasCases(cases, "High") THEN "High"
    ELSE IF HasCases(cases, "Low") THEN "Low"
    ELSE IF HasCases(cases, "Medium") THEN "Medium"
    ELSE "Clean"

_calculate_overall_risk(cases) ==
    IF HasCases(cases, "High") THEN "High"
    ELSE IF HasCases(cases, "Medium") THEN "Medium"
    ELSE IF HasCases(cases, "Low") THEN "Low"
    ELSE IF /\ HasCases(cases, "Ignored")
            /\ ~\E level \in {"High", "Medium", "Low"} : HasCases(cases, level)
    THEN "Clean"
    ELSE IF HasCases(cases, "Clean") THEN "Clean"
    ELSE "Clean"

\* len(processed_cases.get(level, []))
CountOf(cases, level) == Len(Get(cases, level, <<>>))

\* mutant: the Medium text cites the High count
GenerateRecommendation_WrongCount(risk, cases) ==
    IF risk = "High"
    THEN <<"REJECT - High risk profile identified. ",
           ToString(CountOf(cases, "High")),
           " high-risk case(s) require immediate review and likely disqualification.">>
    ELSE IF risk = "Medium"
    THEN <<"REVIEW REQUIRED - Medium risk profile. ",
           ToString(CountOf(cases, "High")),
           " case(s) need manual review before making a decision.">>
    ELSE IF risk = "Low"
    THEN <<"CONDITIONAL APPROVAL - Low risk profile. ",
           ToString(CountOf(cases, "Low")),
           " minor case(s) identified but may be acceptable depending on role requirements.">>
    ELSE IF risk = "Clean"
    THEN IF CountOf(cases, "Ignored") > 0
         THEN <<"APPROVE - Clean background check. ",
                ToString(CountOf(cases, "Ignored")),
                " case(s) were outside assessment criteria.">>
         ELSE <<"APPROVE - Clean background check with no concerning records found.">>
    ELSE <<"MANUAL REVIEW - Unable to determine risk level automatically.">>

_generate_recommendation(risk, cases) ==
    IF risk = "High"
    THEN <<"REJECT - High risk profile identified. ",
           ToString(CountOf(cases, "High")),
           " high-risk case(s) require immediate review and likely disqualification.">>
    ELSE IF risk = "Medium"
    THEN <<"REVIEW REQUIRED - Medium risk profile. ",
           ToString(CountOf(cases, "Medium")),
           " case(s) need manual review before making a decision.">>
    ELSE IF risk = "Low"
    THEN <<"CONDITIONAL APPROVAL - Low risk profile. ",
           ToString(CountOf(cases, "Low")),
           " minor case(s) identified but may be acceptable depending on role requirements.">>
    ELSE IF risk = "Clean"
    THEN IF CountOf(cases, "Ignored") > 0
         THEN <<"APPROVE - Clean background check. ",
                ToString(CountOf(cases, "Ignored")),
                " case(s) were outside assessment criteria.">>
         ELSE <<"APPROVE - Clean background check with no concerning records found.">>
    ELSE <<"MANUAL REVIEW - Unable to determine risk level automatically.">>

----------------------------------------------------------------------------
(* CheckrAPIClient (engine_core/CheckrAPI.py) *)

\* the buffer of is_token_expired, in seconds
TokenBuffer == 300

\* CheckrConfig.is_token_expired at the time t
is_token_expired(cfg, t) == t > cfg.token_issued_at + cfg.expires_in - TokenBuffer

\* _setup_session_headers: the header carries the access token of the
\* configuration
SessionHeader(cfg) ==
    [access_token |-> cfg.access_token,
     token_issued_at |-> cfg.token_issued_at, expires_in |-> cfg.expires_in]

\* _make_request: [exc, value, sent], sent the requests that went out.  An
\* expired token raises before anything is sent; an HTTP or connection
\* error raises after the request went out.
_make_request(endpoint, reply) ==
    IF is_token_expired(api_config, seconds)
    THEN [exc |-> "Exception", sent |-> <<>>]
    ELSE LET request == [endpoint |-> endpoint, token |-> session_token,
                         at |-> seconds]
         IN  IF reply.kind = "error"
             THEN [exc |-> "Exception", sent |-> <<request>>]
             ELSE [exc |-> "none", value |-> reply, sent |-> <<request>>]

\* run_instant_criminal_check, through create_instant_criminal_check
run_instant_criminal_check(reply) == _make_request("/v1/checks", reply)

\* refresh_token answered by token_data: the fields of the configuration
\* are assigned one after the other, and the first key that is missing
\* raises KeyError and leaves the rest as it was
RefreshedConfig(token_data) ==
    IF "access_token" \notin DOMAIN token_data THEN api_config
    ELSE IF "expires_in" \notin DOMAIN token_data
    THEN [api_config EXCEPT !.access_token = token_data.access_token]
    ELSE IF "token_type" \notin DOMAIN token_data
    THEN [api_config EXCEPT !.access_token = token_data.access_token,
                            !.expires_in = token_data.expires_in]
    ELSE [api_config EXCEPT !.access_token = token_data.access_token,
                            !.expires_in = token_data.expires_in,
                            !.token_issued_at = seconds]

\* the refresh went through: every key was there
RefreshSucceeds(token_data) ==
    {"access_token", "expires_in", "token_type"} \subseteq DOMAIN token_data

----------------------------------------------------------------------------
(* CriminalBackgroundRuleEngine.run_complete_background_check *)

EngineSteps ==
    <<"run_instant_criminal_check", "process_criminal_check", "get_summary",
      "_calculate_overall_risk", "_generate_recommendation">>

\* the except clause: whatever was raised becomes RuleEngineError
EngineRaised(steps, sent, fetched) ==
    [trace |-> steps, sent |-> sent, fetched |-> fetched,
     outcome |-> [exc |-> "RuleEngineError"]]

RuleEngineResult(checkr_response, processed, overall) ==
    [checkr_check_id |-> Get(checkr_response, "id", "unknown"),
     checkr_response |-> checkr_response,
     processed_cases |-> processed,
     summary |-> get_summary(processed),
     recommendation |-> _generate_recommendation(overall, processed),
     overall_risk_level |-> overall]

\* the run, were a failed fetch taken for an empty document
RunCompleteBackgroundCheck_ScoresWithoutFetch(reply) ==
    LET fetch == run_instant_criminal_check(reply)
        body == IF fetch.exc = "none" /\ reply.kind = "object"
                THEN reply.body ELSE [id |-> "unknown"]
        processed == process_criminal_check(body)
    IN  IF processed.exc # "none"
        THEN EngineRaised(SubSeq(EngineSteps, 1, 2), fetch.sent, reply)
        ELSE [trace |-> EngineSteps, sent |-> fetch.sent,
              fetched |-> IF fetch.exc = "none" THEN reply ELSE [none |-> TRUE],
              outcome |->
                  [exc |-> "none",
                   value |-> RuleEngineResult(body, processed.value,
                                 _calculate_overall_risk(processed.value))]]

\* the steps of the try block on the reply of the API: the fetch, the
\* scoring, the summary, the overall level and the recommendation, up to
\* the first that raises
run_complete_background_check(reply) ==
    LET fetch == run_instant_criminal_check(reply)
    IN  IF fetch.exc # "none"
        THEN EngineRaised(SubSeq(EngineSteps, 1, 1), fetch.sent, [none |-> TRUE])
        ELSE IF reply.kind # "object"
        \* checkr_response.get on a reply that is no JSON object
        THEN EngineRaised(SubSeq(EngineSteps, 1, 1), fetch.sent, reply)
        ELSE LET processed == process_criminal_check(reply.body)
             IN  IF processed.exc # "none"
                 THEN EngineRaised(SubSeq(EngineSteps, 1, 2), fetch.sent, reply)
                 ELSE [trace |-> EngineSteps, sent |-> fetch.sent,
                       fetched |-> reply,
                       outcome |->
                           [exc |-> "none",
                            value |-> RuleEngineResult(reply.body, processed.value,
                                          _calculate_overall_risk(processed.value))]]

----------------------------------------------------------------------------
(* Configurations *)

Thresholds(critical, high, medium, low) ==
    [critical_risk |-> [min |-> critical], high_risk |-> [min |-> high],
     medium_risk |-> [min |-> medium], low_risk |-> [min |-> low]]

Config(years, categories, types, dispositions, thresholds) ==
    [search_parameters |-> [lookback_period |-> [selected_period |-> years]],
     record_categories |-> [categories |-> categories],
     charge_classification |-> [types |-> types],
     disposition_filters |-> [dispositions |-> dispositions],
     risk_scoring |-> [categories |->
         <<[category |-> "Vehicles & Traffic", base_weight |-> 2]>>],
     scoring_rules |-> [thresholds |-> thresholds]]

CategoryRule(c, e) == [category |-> c, enabled |-> e]
TypeRule(k, e, w) == [input_key |-> k, enabled |-> e, severity_weight |-> w]
DispositionRule(k, e, i) == [input_key |-> k, enabled |-> e, risk_impact |-> i]

CategoryLists ==
    { <<CategoryRule("Criminal/traffic", TRUE), CategoryRule("Civil", FALSE)>>,
      <<CategoryRule("Civil", TRUE)>> }

TypeLists ==
    { <<TypeRule("misdemeanor", TRUE, 1), TypeRule("Felony", TRUE, 3),
        TypeRule("infraction", FALSE, 1)>>,
      \* weights of zero and below
      <<TypeRule("misdemeanor", TRUE, 0), TypeRule("felony", TRUE, -1),
        TypeRule("infraction", TRUE, 2)>>,
      \* a key in upper case, and the default key "unknown" enabled
      <<TypeRule("FELONY", TRUE, 2), TypeRule("misdemeanor", FALSE, 4),
        TypeRule("unknown", TRUE, 1)>> }

DispositionLists ==
    { <<DispositionRule("Conviction", TRUE, "high"),
        DispositionRule("Dismissed", FALSE, "none"),
        DispositionRule("Pending", TRUE, "medium")>>,
      \* an impact outside high/medium/low/none, and the default key enabled
      <<DispositionRule("conviction", TRUE, "none"),
        DispositionRule("dismissed", TRUE, "severe"),
        DispositionRule("unknown", TRUE, "low")>> }

ThresholdSets ==
    { Thresholds(80, 60, 30, 10),
      Thresholds(1000, 900, 800, 700),   \* above every score
      Thresholds(10, 30, 60, 80) }       \* not ascending

LookbackYears == {1, 7}

\* datetime.now() at construction: 2026-11-04, at midnight or later that day
ConstructionTimes == {DateTime(2026, 11, 4, 0), DateTime(2026, 11, 4, 1)}

\* every configuration the charge-level checks load
Configs ==
    { Config(y, c, t, d, th) :
        y \in LookbackYears,
        c \in { <<CategoryRule("Criminal/traffic", TRUE), CategoryRule("Civil", FALSE)>> },
        t \in TypeLists, d \in DispositionLists, th \in ThresholdSets }

\* the configurations the document-level checks load
DocumentConfigs ==
    { Config(7, c, <<TypeRule("misdemeanor", TRUE, 1)>>,
             <<DispositionRule("Conviction", TRUE, "high")>>, th) :
        c \in CategoryLists,
        th \in {Thresholds(80, 60, 30, 10), Thresholds(10, 6, 3, 1)} }

\* a dict without some of its keys
Without(r, keys) == [k \in DOMAIN r \ keys |-> r[k]]

\* the file at a configuration path: missing, not JSON, or a JSON object
MissingFile == [state |-> "missing"]
InvalidJson == [state |-> "invalid"]
JsonFile(cfg) == [state |-> "json", content |-> cfg]

\* [exc, value]: json.load of the file, or the exception raised
_load_config(config_path) ==
    IF config_path.state = "missing" THEN [exc |-> "FileNotFoundError"]
    ELSE IF config_path.state = "invalid" THEN [exc |-> "ValueError"]
    ELSE [exc |-> "none", value |-> config_path.content]

\* config["search_parameters"]["lookback_period"]["selected_period"] is there
HasSelectedPeriod(cfg) ==
    /\ "search_parameters" \in DOMAIN cfg
    /\ "lookback_period" \in DOMAIN cfg.search_parameters
    /\ "selected_period" \in DOMAIN cfg.search_parameters.lookback_period

\* the complete configurations of the life of a processor
LifeConfigs ==
    { Config(y, <<CategoryRule("Criminal/traffic", TRUE)>>,
             <<TypeRule("misdemeanor", TRUE, 1)>>,
             <<DispositionRule("Conviction", TRUE, "high")>>,
             Thresholds(80, 60, 30, 10)) : y \in LookbackYears }

\* the files a processor is constructed from: missing, not JSON, complete,
\* and complete but for one required key
ConfigFiles ==
    {MissingFile, InvalidJson}
    \cup { JsonFile(cfg) : cfg \in LifeConfigs }
    \cup { JsonFile(Without(cfg, {k})) :
             cfg \in LifeConfigs,
             k \in {"search_parameters", "record_categories", "risk_scoring"} }
    \cup { JsonFile([cfg EXCEPT !.search_parameters = [lookback_period |-> [years |-> 1]]]) :
             cfg \in LifeConfigs }

----------------------------------------------------------------------------
(* Record documents *)

MaxNodes == 6        \* result groups + cases + charges of a document
MaxLevelPoints == 90 \* the largest whole score classified alone

Disposition(t) == [disposition_type |-> t]

Charge(offense_date, type, category, subcategory, dispositions) ==
    [offense_date |-> offense_date, type |-> type, category |-> category,
     subcategory |-> subcategory, description |-> "charge",
     dispositions |-> dispositions]


DispositionListsOfCharges ==
    { <<>>,
      <<Disposition("Conviction")>>,
      <<Disposition("Dismissed"), Disposition("Conviction")>>,
      <<[disposition_date |-> "20200101"]>> }

\* the charges of the charge-level checks: every combination of the field
\* values, and each of them with some keys missing
Charges ==
    LET full == { Charge(od, t, c, sc, ds) :
                    od \in {"20261001", "20221201", "20191106", "20160623", "20230230"},
                    t \in {"Misdemeanor", "FELONY", "infraction"},
                    c \in {"UNCLASSIFIED", "Vehicles & Traffic", "Zoning"},
                    sc \in {"Speeding", "License"},
                    ds \in DispositionListsOfCharges }
        missing == { {}, {"offense_date"}, {"type"}, {"category", "subcategory"},
                     {"dispositions"} }
    IN  { Without(ch, keys) : ch \in full, keys \in missing }

\* the documents of the charge-level checks: no results, or one result
\* group with one case with one charge
ChargeDocuments ==
    { [id |-> "check"], [id |-> "check", results |-> <<>>] } \cup
    { [id |-> "check",
       results |-> <<[category |-> c,
                      cases |-> <<[case_number |-> "case-1", charges |-> <<ch>>]>>]>>] :
        c \in {"CRIMINAL/TRAFFIC", "Civil"}, ch \in Charges }

\* the charges of the document-level checks: scored low, scored high,
\* outside the lookback period, and with an empty dispositions list
DocumentCharges ==
    { Charge("20261001", "Misdemeanor", "Vehicles & Traffic", "Speeding",
             <<Disposition("Conviction")>>),
      Charge("20261001", "Misdemeanor", "Unclassified", "",
             <<Disposition("Conviction")>>),
      Charge("20160623", "Misdemeanor", "Vehicles & Traffic", "License",
             <<Disposition("Conviction")>>),
      Charge("20261001", "Misdemeanor", "Violence", "", <<>>) }

RECURSIVE ChargeLists(_)
ChargeLists(n) ==
    IF n = 0 THEN {<<>>}
    ELSE {<<>>} \cup { <<ch>> \o rest : ch \in DocumentCharges, rest \in ChargeLists(n - 1) }

RECURSIVE CaseLists(_)
CaseLists(n) ==
    IF n = 0 THEN {<<>>}
    ELSE {<<>>} \cup UNION {
            { <<[case_number |-> "case-1", charges |-> chs]>> \o rest :
                rest \in CaseLists(n - 1 - Len(chs)) } :
            chs \in ChargeLists(n - 1) }

RECURSIVE NodesOfCases(_)
NodesOfCases(cases) ==
    IF cases = <<>> THEN 0
    ELSE 1 + Len(Head(cases).charges) + NodesOfCases(Tail(cases))

RECURSIVE ResultLists(_)
ResultLists(n) ==
    IF n = 0 THEN {<<>>}
    ELSE {<<>>} \cup UNION {
            { <<[category |-> c, cases |-> cases]>> \o rest :
                c \in {"CRIMINAL/TRAFFIC", "Civil"},
                rest \in ResultLists(n - 1 - NodesOfCases(cases)) } :
            cases \in CaseLists(n - 1) }

\* every document of at most MaxNodes nodes, and the one without results
Documents ==
    { [id |-> "check"] } \cup
    { [id |-> "check", results |-> rs] : rs \in ResultLists(MaxNodes) }

\* the scores classified alone, in thousandths: around zero and around
\* every whole score up to MaxLevelPoints
LevelScores ==
    { Points(k) + e : k \in 0..MaxLevelPoints, e \in {-10, 0, 10} }

LevelCategories == {"UNCLASSIFIED", "Unclassified", "Violence", "Zoning"}

\* the days the clock moves on after 2026-11-04
MaxClockDays == 1

\* the documents of the life of a processor: no results, and one charge that
\* is a month old, a year old to the day, or ten years old
LifeDocuments ==
    { [id |-> "check"], [id |-> "check", results |-> <<>>] } \cup
    { [id |-> "check",
       results |-> <<[category |-> "CRIMINAL/TRAFFIC",
                      cases |-> <<[case_number |-> "case-1", charges |->
                          <<Charge(od, "Misdemeanor", "Vehicles & Traffic",
                                   "Speeding", <<Disposition("Conviction")>>)>>]>>]>>] :
        od \in {"20261001", "20251104", "20160623"} }

\* the configurations of the classifier called alone: every threshold at
\* every one of a few values, in any order
ThresholdValues == {0, 30, 60}

LevelConfigs ==
    { Config(7, <<CategoryRule("Criminal/traffic", TRUE)>>,
             <<TypeRule("misdemeanor", TRUE, 1)>>,
             <<DispositionRule("Conviction", TRUE, "high")>>,
             Thresholds(c, h, m, l)) :
        c \in ThresholdValues, h \in ThresholdValues,
        m \in ThresholdValues, l \in ThresholdValues }

\* the configurations of the scoring helpers called alone: the type and
\* disposition rules, and a base_weight for a category under risk_scoring
BaseWeights == {0, 2, 10}

ScoreConfigs ==
    { [Config(7, <<CategoryRule("Criminal/traffic", TRUE)>>, t,
              <<DispositionRule("Conviction", TRUE, "high"),
                DispositionRule("Dismissed", TRUE, "none")>>,
              Thresholds(80, 60, 30, 10))
         EXCEPT !.risk_scoring =
             [categories |-> <<[category |-> c, base_weight |-> w]>>]] :
        t \in { <<TypeRule("misdemeanor", TRUE, 1), TypeRule("felony", TRUE, 3)>>,
                <<TypeRule("misdemeanor", TRUE, 2)>> },
        c \in {"Vehicles & Traffic", "Violence"},
        w \in BaseWeights }

\* the categories and subcategories looked up in the tier table: every
\* category of the table, some in another case, and categories outside it
TierCategories ==
    {"Vehicles & Traffic", "VEHICLES & TRAFFIC", "vehicles & traffic",
     "Criminal Intent", "Violence", "VIOLENCE", "Sexual", "Homicide",
     "Fraud & Deception", "Drugs & Alcohol", "Theft & Property", "Security",
     "Statutory", "Unclassified", "UNCLASSIFIED", "Zoning", ""}

TierSubcategories ==
    {"", "License", "License & Registration", "Speeding", "SPEEDING",
     "Traffic Violations", "Reckless Driving", "Accessory", "Court Orders",
     "Assault"}

\* the offense dates scored alone: in the future, today, on either side of
\* the 365, 1095 and 1825 days before 2026-11-04, long ago, and no date
ScoreDates ==
    {"20270101", "20261104", "20251105", "20251104", "20251103",
     "20231106", "20231105", "20231104", "20211106", "20211105", "20211104",
     "20160623", "20230230", "N/A", ""}

\* the charges scored alone
ScoreCharges ==
    LET full == { Charge("20261001", t, c, sc, ds) :
                    t \in {"Misdemeanor", "FELONY"},
                    c \in {"UNCLASSIFIED", "VEHICLES & TRAFFIC", "Violence",
                           "Statutory", "Zoning"},
                    sc \in {"SPEEDING", "License", "Assault"},
                    ds \in { <<Disposition("Conviction")>>,
                             <<Disposition("Dismissed")>>, <<>> } }
    IN  full \cup { Without(ch, {"category", "subcategory"}) : ch \in full }

\* the seconds the clock of the API client moves on, and the tokens a
\* client gets beyond its first
MaxSeconds == 4
MaxTokens == 2

\* the lifetimes of a token, in seconds: over at once, after 1 and after 3
\* seconds
ExpiresIn == {299, 301, 303}

\* the documents the API answers with
EngineDocuments ==
    { [id |-> "check"], [id |-> "check", results |-> <<>>] } \cup
    { [id |-> "check",
       results |-> <<[category |-> c,
                      cases |-> <<[case_number |-> "case-1", charges |-> chs]>>]>>] :
        c \in {"CRIMINAL/TRAFFIC", "Civil"},
        chs \in { <<a>> : a \in DocumentCharges }
                 \cup { <<a, b>> : a \in DocumentCharges, b \in DocumentCharges } }

\* what the API answers to a check: an HTTP or connection error, a JSON
\* document, or JSON that is no object
ApiReplies ==
    { [kind |-> "error"], [kind |-> "array"] } \cup
    { [kind |-> "object", body |-> d] : d \in EngineDocuments }

\* what the token endpoint answers to a refresh: an error, or token data
\* with every key or short of some
TokenReplies(next_token) ==
    { [kind |-> "error"] } \cup
    { [kind |-> "object", body |-> Without(
          [access_token |-> next_token, expires_in |-> e, token_type |-> "Bearer"],
          missing)] :
        e \in ExpiresIn,
        missing \in { {}, {"access_token"}, {"expires_in"}, {"token_type"} } }

\* the worker threads the UI starts
MaxRuns == 7

\* the longest bucket of the mappings handed to get_summary and the engine
MaxBucketLen == 2

\* the sequences over S of length n at most
SeqsUpTo(S, n) == UNION { [1..k -> S] : k \in 0..n }

\* a ProcessedCase of a level with a score, as process_criminal_check files it
CaseOf(level, score) ==
    IF level = "Clean"
    THEN SyntheticClean("No criminal records found", "No criminal history found")
    ELSE ProcessedCase("case-1", "charge", "20261001", "Misdemeanor", "Conviction",
                       "Violence", "", level, score,
                       IF level = "Ignored" THEN ReasonDisposition("Conviction")
                       ELSE ReasonProcessed)

\* the scores of the cases of a bucket, in thousandths
BucketScores(level) ==
    CASE level = "Low" -> {-5620, 5620}
      [] level = "Medium" -> {39380}
      [] level = "High" -> {21000, 78750}
      [] OTHER -> {0}

BucketsOf(level, n) ==
    { [i \in DOMAIN scores |-> CaseOf(level, scores[i])] :
          scores \in SeqsUpTo(BucketScores(level), n) }

\* five-key mappings, every bucket empty included
BucketMappings ==
    [Ignored : BucketsOf("Ignored", MaxBucketLen),
     Low : BucketsOf("Low", MaxBucketLen),
     Medium : BucketsOf("Medium", MaxBucketLen),
     High : BucketsOf("High", MaxBucketLen),
     Clean : BucketsOf("Clean", 1)]

\* the members of RiskLevel
RiskLevels == {"Ignored", "Low", "Medium", "High", "Clean"}

----------------------------------------------------------------------------
(* The state machine *)

None == [none |-> TRUE]

\* BackgroundCheckUI.__init__: no engine, no result, the Run button enabled
\* and the Export button disabled
UiInit ==
    /\ run_button = "normal"
    /\ export_button = "disabled"
    /\ rule_engine = FALSE
    /\ threads_started = 0
    /\ worker_threads = {}
    /\ after_queue = <<>>
    /\ dialogs = 0
    /\ current_result = None

\* nothing was called but the processor
OtherInit ==
    /\ score_call = None
    /\ seconds = 0
    /\ api_config = None
    /\ session_token = None
    /\ engine_run = None
    /\ UiInit

\* __init__: the configuration is loaded, the cutoff date is fixed
Construct(cfg, t) ==
    /\ config = cfg
    /\ lookback_years = cfg.search_parameters.lookback_period.selected_period
    /\ cutoff_date = MinusDays(t, lookback_years * 365)
    /\ now = t
    /\ data = None
    /\ results = None
    /\ phase = "ready"
    /\ level_score = 0
    /\ level_category = ""
    /\ level_result = ""
    /\ processed_cases = None
    /\ overall_risk = ""
    /\ recommendation = <<>>
    /\ summary = None
    /\ history = <<>>

Init ==
    /\ \E cfg \in DocumentConfigs, t \in ConstructionTimes : Construct(cfg, t)
    /\ OtherInit

InitCharge ==
    /\ \E cfg \in Configs, t \in ConstructionTimes : Construct(cfg, t)
    /\ OtherInit

\* the state before a processor is constructed
InitLife ==
    /\ config = None
    /\ lookback_years = 0
    /\ cutoff_date = None
    /\ now \in ConstructionTimes
    /\ data = None
    /\ results = None
    /\ phase = "unbuilt"
    /\ level_score = 0
    /\ level_category = ""
    /\ level_result = ""
    /\ processed_cases = None
    /\ overall_risk = ""
    /\ recommendation = <<>>
    /\ summary = None
    /\ history = <<>>
    /\ OtherInit

\* what comes of a call: the mapping returned or the exception raised, and
\* the call added to those made before on the document
Outcome(r, before) ==
    /\ IF r.exc = "none"
       THEN phase' = "returned" /\ results' = r.value
       ELSE phase' = "raised" /\ results' = None
    /\ history' =
           (IF before = <<>> THEN <<>> ELSE <<before[Len(before)]>>)
           \o <<[at |-> now, exc |-> r.exc,
                 results |-> IF r.exc = "none" THEN r.value ELSE None]>>

\* a call of process_criminal_check on a document of docs, to its return
\* or its exception
ProcessCriminalCheck(docs) ==
    /\ phase = "ready"
    /\ \E d \in docs :
        /\ data' = d
        /\ Outcome(process_criminal_check(d), <<>>)
    /\ UNCHANGED otherVars
    /\ UNCHANGED <<config, lookback_years, cutoff_date, now,
                   level_score, level_category, level_result,
                   processed_cases, overall_risk, recommendation, summary>>

\* the call, were the cutoff taken from the clock at each call
ProcessAgain_MovingCutoff ==
    /\ phase \in {"returned", "raised", "summarised"}
    /\ data # None
    /\ Outcome(process_criminal_check(data), history)
    /\ cutoff_date' = MinusDays(now, lookback_years * 365)
    /\ UNCHANGED otherVars
    /\ UNCHANGED <<config, lookback_years, now, data,
                   level_score, level_category, level_result,
                   processed_cases, overall_risk, recommendation, summary>>

\* process_criminal_check called once more on the document in hand
ProcessAgain ==
    /\ phase \in {"returned", "raised", "summarised"}
    /\ data # None
    /\ Outcome(process_criminal_check(data), history)
    /\ UNCHANGED otherVars
    /\ UNCHANGED <<config, lookback_years, cutoff_date, now, data,
                   level_score, level_category, level_result,
                   processed_cases, overall_risk, recommendation, summary>>

\* get_summary called on the mapping process_criminal_check returned
Summarise ==
    /\ phase = "returned"
    /\ processed_cases' = results
    /\ summary' = get_summary(results)
    /\ phase' = "summarised"
    /\ UNCHANGED otherVars
    /\ UNCHANGED <<config, lookback_years, cutoff_date, now, data, results,
                   level_score, level_category, level_result,
                   overall_risk, recommendation, history>>

\* the clock moves on: to a later time of the day, or to the next day
Tick ==
    /\ phase # "unbuilt"
    /\ \E t \in IF now.tod = 0 THEN {[day |-> now.day, tod |-> 1]}
                 ELSE {[day |-> now.day + 1, tod |-> 0],
                       [day |-> now.day + 1, tod |-> 1]} :
        /\ t.day <= ToOrdinal(2026, 11, 4) + MaxClockDays
        /\ now' = t
    /\ UNCHANGED otherVars
    /\ UNCHANGED <<config, lookback_years, cutoff_date, data, results, phase,
                   level_score, level_category, level_result,
                   processed_cases, overall_risk, recommendation, summary,
                   history>>

\* CriminalCheckProcessor(config_file_path): the configuration is loaded
\* and the lookback period read, or the constructor raises
ConstructProcessor ==
    /\ phase = "unbuilt"
    /\ \E config_path \in ConfigFiles :
        LET loaded == _load_config(config_path)
        IN  IF loaded.exc # "none" \/ ~HasSelectedPeriod(loaded.value)
            THEN /\ phase' = "failed"
                 /\ UNCHANGED <<config, lookback_years, cutoff_date>>
            ELSE /\ config' = loaded.value
                 /\ lookback_years' =
                        loaded.value.search_parameters.lookback_period.selected_period
                 /\ cutoff_date' = MinusDays(now,
                        loaded.value.search_parameters.lookback_period.selected_period * 365)
                 /\ phase' = "ready"
    /\ UNCHANGED otherVars
    /\ UNCHANGED <<now, data, results, level_score, level_category, level_result,
                   processed_cases, overall_risk, recommendation, summary,
                   history>>

\* _determine_risk_level called alone on a score and a category
DetermineRiskLevel ==
    /\ phase = "ready"
    /\ \E s \in LevelScores, c \in LevelCategories :
        /\ level_score' = s
        /\ level_category' = c
        /\ level_result' = _determine_risk_level(s, c)
    /\ phase' = "classified"
    /\ UNCHANGED otherVars
    /\ UNCHANGED <<config, lookback_years, cutoff_date, now, data, results,
                   processed_cases, overall_risk, recommendation, summary,
                   history>>

\* the caller is done with the outcome; the processor takes the next call
Release ==
    /\ phase \notin {"ready", "unbuilt", "failed"}
    /\ phase' = "ready"
    /\ data' = None
    /\ results' = None
    /\ level_score' = 0
    /\ level_category' = ""
    /\ level_result' = ""
    /\ processed_cases' = None
    /\ overall_risk' = ""
    /\ recommendation' = <<>>
    /\ summary' = None
    /\ history' = <<>>
    /\ UNCHANGED otherVars
    /\ UNCHANGED <<config, lookback_years, cutoff_date, now>>

\* _calculate_overall_risk called on a bucket mapping
CalculateOverallRisk ==
    /\ phase = "ready"
    /\ \E m \in BucketMappings :
        /\ processed_cases' = m
        /\ overall_risk' = _calculate_overall_risk(m)
    /\ phase' = "assessed"
    /\ UNCHANGED otherVars
    /\ UNCHANGED <<config, lookback_years, cutoff_date, now, data, results,
                   level_score, level_category, level_result,
                   recommendation, summary, history>>

\* _generate_recommendation called on a level and a bucket mapping
GenerateRecommendation ==
    /\ phase = "ready"
    /\ \E m \in BucketMappings, risk \in RiskLevels :
        /\ processed_cases' = m
        /\ overall_risk' = risk
        /\ recommendation' = _generate_recommendation(risk, m)
    /\ phase' = "recommended"
    /\ UNCHANGED otherVars
    /\ UNCHANGED <<config, lookback_years, cutoff_date, now, data, results,
                   level_score, level_category, level_result, summary, history>>

\* get_summary called on a bucket mapping
GetSummary ==
    /\ phase = "ready"
    /\ \E m \in BucketMappings :
        /\ processed_cases' = m
        /\ summary' = get_summary(m)
    /\ phase' = "summarised"
    /\ UNCHANGED otherVars
    /\ UNCHANGED <<config, lookback_years, cutoff_date, now, data, results,
                   level_score, level_category, level_result,
                   overall_risk, recommendation, history>>

\* _get_csv_risk_score called alone on a category and a subcategory
GetCsvRiskScore ==
    /\ phase = "ready"
    /\ score_call = None
    /\ \E category \in TierCategories, subcategory \in TierSubcategories :
        score_call' = [fn |-> "_get_csv_risk_score",
                       category |-> category, subcategory |-> subcategory,
                       result |-> _get_csv_risk_score(category, subcategory)]
    /\ UNCHANGED exceptScoreCall

\* _calculate_risk_score called alone on a charge and an offense date
CalculateRiskScore ==
    /\ phase = "ready"
    /\ score_call = None
    /\ \E charge \in ScoreCharges, offense_date \in ScoreDates :
        score_call' = [fn |-> "_calculate_risk_score",
                       charge |-> charge, offense_date |-> offense_date,
                       result |-> _calculate_risk_score(charge, offense_date)]
    /\ UNCHANGED exceptScoreCall

\* the caller is done with what the helper returned
ScoreDone ==
    /\ score_call # None
    /\ score_call' = None
    /\ UNCHANGED exceptScoreCall

Next == ProcessCriminalCheck(Documents) \/ Release

NextCharge == ProcessCriminalCheck(ChargeDocuments) \/ Release

NextLevel == DetermineRiskLevel \/ Release

NextLife ==
    \/ ConstructProcessor
    \/ ProcessCriminalCheck(LifeDocuments)
    \/ ProcessAgain
    \/ Summarise
    \/ Tick
    \/ Release

\* run_complete_background_check called, to its result or its exception
RunCompleteBackgroundCheck ==
    /\ api_config # None
    /\ engine_run = None
    /\ \E reply \in ApiReplies :
        engine_run' = run_complete_background_check(reply)
    /\ UNCHANGED <<processorVars, score_call, uiVars, seconds, api_config, session_token>>

\* the caller is done with the result or the exception
EngineDone ==
    /\ engine_run # None
    /\ engine_run' = None
    /\ UNCHANGED <<processorVars, score_call, uiVars, seconds, api_config, session_token>>

\* refresh_token called on a client with client_id and client_secret
\* (without them it raises at once and changes nothing): an error of the
\* token endpoint raises and changes nothing; token data is stored key by
\* key, and the header is set when every key was there
RefreshToken ==
    /\ api_config # None
    /\ engine_run = None
    /\ api_config.credentials
    /\ api_config.access_token < MaxTokens
    /\ \E reply \in TokenReplies(api_config.access_token + 1) :
        IF reply.kind = "error"
        THEN UNCHANGED <<api_config, session_token>>
        ELSE /\ api_config' = RefreshedConfig(reply.body)
             /\ session_token' =
                    IF RefreshSucceeds(reply.body)
                    THEN SessionHeader(RefreshedConfig(reply.body))
                    ELSE session_token
    /\ UNCHANGED <<processorVars, score_call, uiVars, seconds, engine_run>>

\* a second passes
TickSecond ==
    /\ api_config # None
    /\ seconds < MaxSeconds
    /\ seconds' = seconds + 1
    /\ UNCHANGED <<processorVars, score_call, uiVars, api_config, session_token, engine_run>>

\* handle_error: the Run button is enabled again and an error box opens
handle_error ==
    /\ run_button' = "normal"
    /\ dialogs' = dialogs + 1

\* the Run button clicked, were the button left as it is
RunBackgroundCheck_ButtonLeftEnabled ==
    /\ run_button = "normal"
    /\ dialogs = 0
    /\ threads_started < MaxRuns
    /\ rule_engine' = TRUE
    /\ export_button' = "disabled"
    /\ current_result' = None
    /\ threads_started' = threads_started + 1
    /\ worker_threads' = worker_threads \cup {threads_started + 1}
    /\ UNCHANGED <<run_button, dialogs, after_queue>>
    /\ UNCHANGED exceptUi

\* run_background_check, the command of the Run button, which answers no
\* click while it is disabled or a message box is open: the form is read,
\* the engine built if there is none, the button disabled, the results
\* cleared and the worker started
RunBackgroundCheck ==
    /\ run_button = "normal"
    /\ dialogs = 0
    /\ threads_started < MaxRuns
    /\ \E way \in {"invalid form", "no engine", "not started", "started"} :
        CASE way = "invalid form" ->
               \* get_form_data raises ValueError: a box, and nothing else
               /\ dialogs' = dialogs + 1
               /\ UNCHANGED <<run_button, export_button, rule_engine,
                              threads_started, worker_threads, after_queue,
                              current_result>>
          [] way = "no engine" ->
               \* initialize_rule_engine fails: a box, and False is returned
               /\ ~rule_engine
               /\ dialogs' = dialogs + 1
               /\ UNCHANGED <<run_button, export_button, rule_engine,
                              threads_started, worker_threads, after_queue,
                              current_result>>
          [] way = "not started" ->
               \* the button is disabled, then clearing the results or starting
               \* the thread raises: handle_error
               /\ rule_engine' = TRUE
               /\ \E cleared \in BOOLEAN :
                   /\ export_button' = IF cleared THEN "disabled" ELSE export_button
                   /\ current_result' = IF cleared THEN None ELSE current_result
               /\ handle_error
               /\ UNCHANGED <<threads_started, worker_threads, after_queue>>
          [] way = "started" ->
               /\ rule_engine' = TRUE
               /\ run_button' = "disabled"
               /\ export_button' = "disabled"
               /\ current_result' = None
               /\ threads_started' = threads_started + 1
               /\ worker_threads' = worker_threads \cup {threads_started + 1}
               /\ UNCHANGED <<dialogs, after_queue>>
    /\ UNCHANGED exceptUi

\* run_check, the worker: run_complete_background_check returns or raises and
\* the worker schedules display_results or handle_error on the main thread;
\* or root.after, called off the main thread, raises both times and the
\* worker ends with nothing scheduled
RunCheck ==
    /\ \E thread \in worker_threads :
        /\ worker_threads' = worker_threads \ {thread}
        /\ \E scheduled \in { <<>>,
                               <<[callback |-> "display_results", thread |-> thread]>>,
                               <<[callback |-> "handle_error", thread |-> thread]>> } :
            after_queue' = after_queue \o scheduled
    /\ UNCHANGED <<run_button, export_button, rule_engine, threads_started,
                   dialogs, current_result>>
    /\ UNCHANGED exceptUi

\* the main loop runs the callback scheduled first: display_results shows
\* the result, enables both buttons and opens the completion box
DisplayResults ==
    /\ after_queue # <<>>
    /\ Head(after_queue).callback = "display_results"
    /\ current_result' = Head(after_queue).thread
    /\ export_button' = "normal"
    /\ run_button' = "normal"
    /\ dialogs' = dialogs + 1
    /\ after_queue' = Tail(after_queue)
    /\ UNCHANGED <<rule_engine, threads_started, worker_threads>>
    /\ UNCHANGED exceptUi

\* the main loop runs the callback scheduled first: handle_error
HandleError ==
    /\ after_queue # <<>>
    /\ Head(after_queue).callback = "handle_error"
    /\ handle_error
    /\ after_queue' = Tail(after_queue)
    /\ UNCHANGED <<export_button, rule_engine, threads_started, worker_threads,
                   current_result>>
    /\ UNCHANGED exceptUi

\* the user closes a message box
CloseDialog ==
    /\ dialogs > 0
    /\ dialogs' = dialogs - 1
    /\ UNCHANGED <<run_button, export_button, rule_engine, threads_started,
                   worker_threads, after_queue, current_result>>
    /\ UNCHANGED exceptUi

NextUi ==
    \/ RunBackgroundCheck
    \/ RunCheck
    \/ DisplayResults
    \/ HandleError
    \/ CloseDialog

NextEngine ==
    \/ RunCompleteBackgroundCheck
    \/ EngineDone
    \/ RefreshToken
    \/ TickSecond

NextScore == GetCsvRiskScore \/ CalculateRiskScore \/ ScoreDone

NextAssess == CalculateOverallRisk \/ GenerateRecommendation \/ GetSummary \/ Release

\* documents of several groups, cases and charges
Spec == Init /\ [][Next]_vars

\* one charge at a time, over every charge and configuration
SpecCharge == InitCharge /\ [][NextCharge]_vars

\* the classifier alone, over scores, categories and thresholds
SpecLevel == InitCharge /\ [][NextLevel]_vars

\* a processor from its construction on, called again and again while the
\* clock moves
SpecLife == InitLife /\ [][NextLife]_vars

\* the aggregation over bucket mappings: the summary, the overall level and
\* the recommendation
SpecAssess == Init /\ [][NextAssess]_vars

InitThresholds ==
    /\ \E cfg \in LevelConfigs : Construct(cfg, DateTime(2026, 11, 4, 1))
    /\ OtherInit

\* the classifier alone, over scores, categories and thresholds in any order
SpecThresholds == InitThresholds /\ [][NextLevel]_vars

\* CriminalBackgroundRuleEngine(checkr_config_path, risk_config_path): the
\* client holds the token of its configuration file, issued, as far as the
\* client knows, when the file was loaded
InitEngine ==
    /\ \E cfg \in DocumentConfigs : Construct(cfg, DateTime(2026, 11, 4, 1))
    /\ score_call = None
    /\ seconds = 0
    /\ \E e \in ExpiresIn, credentials \in BOOLEAN :
        /\ api_config = [access_token |-> 0, expires_in |-> e,
                         token_issued_at |-> 0, credentials |-> credentials]
        /\ session_token = SessionHeader(api_config)
    /\ engine_run = None
    /\ UiInit

\* the engine: the fetch through the API client, the scoring, the
\* assessment, while the token ages and is refreshed
SpecEngine == InitEngine /\ [][NextEngine]_vars

\* the desktop UI: clicks on the Run button, the workers, and the callbacks
\* they schedule on the main thread
SpecUi == InitLife /\ [][NextUi]_vars

InitScore ==
    /\ \E cfg \in ScoreConfigs, t \in ConstructionTimes : Construct(cfg, t)
    /\ OtherInit

\* the scoring helpers alone, over categories, charges and offense dates
SpecScore == InitScore /\ [][NextScore]_vars

----------------------------------------------------------------------------
(* Properties: vocabulary *)

Returned == phase = "returned"

HasResults(d) == "results" \in DOMAIN d /\ d.results # <<>>

Entries(r) == r.Ignored \o r.Low \o r.Medium \o r.High \o r.Clean

\* the record the processor makes up when there is nothing to report
IsSynthetic(e) ==
    e.case_number = "N/A" /\ e.offense_date = "N/A" /\ e.charge_type = "N/A"

\* the result group's record category is configured and enabled
CategoryEnabled(result) ==
    \E i \in 1..Len(config.record_categories.categories) :
        LET rule == config.record_categories.categories[i]
        IN  Lower(rule.category) = Lower(Get(result, "category", "")) /\ rule.enabled

\* the places <<group, case, charge>> of the charges of a document
Positions(d) ==
    UNION { UNION { { <<i, j, k>> : k \in 1..Len(d.results[i].cases[j].charges) } :
                    j \in 1..Len(d.results[i].cases) } :
            i \in 1..Len(d.results) }

ChargeAt(d, p) == d.results[p[1]].cases[p[2]].charges[p[3]]

EnabledPositions(d) == { p \in Positions(d) : CategoryEnabled(d.results[p[1]]) }

\* entry e carries the fields of charge ch
EntryOf(ch, e) ==
    /\ ~IsSynthetic(e)
    /\ e.offense_date = Get(ch, "offense_date", "")
    /\ e.charge_type = Get(ch, "type", "unknown")
    /\ e.category = Get(ch, "category", "unclassified")
    /\ e.subcategory = Get(ch, "subcategory", "")

\* the number of entries of the returned mapping that carry charge ch
EntriesFor(ch) ==
    Cardinality({ i \in 1..Len(Entries(results)) : EntryOf(ch, Entries(results)[i]) })

NonSynthetic(r) == SelectSeq(Entries(r), LAMBDA e : ~IsSynthetic(e))

Range(f) == { f[i] : i \in DOMAIN f }

----------------------------------------------------------------------------
(* C1 *)

----------------------------------------------------------------------------
(* C2 *)

\* C2: a result group whose record category is disabled, or matches no
\* configured category, gives no ProcessedCase in any bucket: a document
\* with no enabled group returns only the synthetic Clean entry and never
\* raises, and in every mapping returned a charge that occurs only in such
\* groups has no entry.
C2_DisabledCategoryEmitsNothing ==
    (phase \in {"returned", "raised"} /\ HasResults(data)) =>
        /\ EnabledPositions(data) = {} =>
              /\ Returned
              /\ results.Ignored = <<>> /\ results.Low = <<>>
              /\ results.Medium = <<>> /\ results.High = <<>>
              /\ \A i \in 1..Len(results.Clean) : IsSynthetic(results.Clean[i])
        /\ Returned =>
              \A ch \in DocumentCharges :
                  (\A p \in EnabledPositions(data) : ChargeAt(data, p) # ch) =>
                      EntriesFor(ch) = 0

\* a mapping returned with an entry for the charge of an enabled group and
\* none for the different charge of a group that is not enabled
C2_Witness ==
    /\ Returned /\ HasResults(data)
    /\ EnabledPositions(data) # {}
    /\ \E p \in Positions(data) \ EnabledPositions(data) :
          /\ \A q \in EnabledPositions(data) : ChargeAt(data, q) # ChargeAt(data, p)
          /\ EntriesFor(ChargeAt(data, p)) = 0
    /\ Len(NonSynthetic(results)) >= 1

(* the one charge of a single-charge document *)

\* the document has one group with one case with one charge
SingleCharge(d) ==
    /\ HasResults(d) /\ Len(d.results) = 1
    /\ Len(d.results[1].cases) = 1
    /\ Len(d.results[1].cases[1].charges) = 1

TheCharge == data.results[1].cases[1].charges[1]

\* a mapping was returned for a single charge of an enabled group
ChargeWalked ==
    Returned /\ SingleCharge(data) /\ CategoryEnabled(data.results[1])

TheEntry == Entries(results)[1]

\* the mapping holds one entry, which carries the charge
OneEntry == Len(Entries(results)) = 1 /\ EntryOf(TheCharge, TheEntry)

TheOffenseDate == Get(TheCharge, "offense_date", "")

TheChargeType == Get(TheCharge, "type", "unknown")

TheCategory == Get(TheCharge, "category", "unclassified")

\* the type of the first disposition, "unknown" when there is none
TheDisposition ==
    IF "dispositions" \in DOMAIN TheCharge /\ TheCharge.dispositions # <<>>
    THEN Get(TheCharge.dispositions[1], "disposition_type", "unknown")
    ELSE "unknown"

\* the offense date parses and is not before the cutoff date
LookbackPasses ==
    /\ _parse_date(TheOffenseDate).exc = "none"
    /\ DtGeq(_parse_date(TheOffenseDate).value, cutoff_date)

\* some rule of the list has this key, whatever the case, and is enabled
EnabledIn(rules, text) ==
    \E i \in 1..Len(rules) :
        Lower(rules[i].input_key) = Lower(text) /\ rules[i].enabled

TypeEnabled == EnabledIn(config.charge_classification.types, TheChargeType)

\* the charge has a first disposition: its list is not empty, or it has no
\* list and the default list of the code stands in
HasDisposition ==
    "dispositions" \notin DOMAIN TheCharge \/ TheCharge.dispositions # <<>>

DispositionEnabled ==
    /\ HasDisposition
    /\ EnabledIn(config.disposition_filters.dispositions, TheDisposition)

\* the entry was scored: a risk level and the reason of a processed charge
Scored(e) ==
    e.risk_level \in {"Low", "Medium", "High"} /\ e.reason = <<"Processed successfully">>

\* the severity weight of the rule the charge type matches, 1 without a rule
SeverityWeightOf(text) ==
    LET types == config.charge_classification.types
        hits == { i \in 1..Len(types) : Lower(types[i].input_key) = Lower(text) }
    IN  IF hits = {} THEN 1 ELSE types[Min(hits)].severity_weight

\* the risk impact of the rule the disposition matches, "none" without one
RiskImpactOf(text) ==
    LET dispositions == config.disposition_filters.dispositions
        hits == { i \in 1..Len(dispositions) :
                      Lower(dispositions[i].input_key) = Lower(text) }
    IN  IF hits = {} THEN "none" ELSE dispositions[Min(hits)].risk_impact

(* C3 *)

\* the call was made on a single charge of an enabled group, and has
\* returned or raised
ChargeProcessed ==
    /\ phase \in {"returned", "raised"}
    /\ SingleCharge(data) /\ CategoryEnabled(data.results[1])

\* the charge was emitted as Ignored with score 0.0 and this reason
EmittedIgnored(reason) ==
    /\ Returned /\ OneEntry
    /\ TheEntry.risk_level = "Ignored" /\ TheEntry.risk_score = 0
    /\ TheEntry.reason = reason

\* C3: the checks on a charge run in the order lookback, charge type,
\* disposition, and the first that fails decides: a charge of an enabled
\* group whose offense date does not parse or is before the cutoff is
\* emitted as Ignored with score 0.0 and the lookback reason whatever its
\* type and disposition, a charge within the lookback whose type is not
\* enabled is emitted with the charge-type reason whatever its disposition,
\* and the disposition reason is given only to a charge that passed the two
\* earlier checks.
C3_FirstFailingCheckDecides ==
    ChargeProcessed =>
        /\ ~LookbackPasses =>
              EmittedIgnored(<<"Outside ", ToString(lookback_years),
                               "-year lookback period">>)
        /\ (LookbackPasses /\ ~TypeEnabled) =>
              EmittedIgnored(<<"Charge type '", TheChargeType,
                               "' not enabled in configuration">>)
        /\ (Returned /\ TheEntry.reason[1] = "Disposition '") =>
              LookbackPasses /\ TypeEnabled /\ ~DispositionEnabled

(* C4 *)

\* the entry of the charge is scored exactly when the three checks pass,
\* and is Ignored otherwise
ScoredIffAllChecksPass ==
    /\ Scored(TheEntry) <=> (LookbackPasses /\ TypeEnabled /\ DispositionEnabled)
    /\ ~Scored(TheEntry) =>
          TheEntry.risk_level = "Ignored" /\ TheEntry.risk_score = 0

\* C4: a charge of an enabled group is scored exactly when its offense date
\* parses and is on or after the cutoff, its type matches an enabled
\* charge-type rule and its first disposition type matches an enabled
\* disposition rule, keys compared without regard to case; every other
\* charge, one whose type or disposition has no rule included, is emitted
\* as Ignored.
C4_ScoredIffAllChecksPass ==
    ChargeProcessed => (Returned /\ OneEntry /\ ScoredIffAllChecksPass)

(* C5 *)

\* C5: every entry with risk level Ignored has risk score 0.0 and a reason
\* other than "Processed successfully".
C5_IgnoredScoreZero ==
    Returned =>
        \A i \in 1..Len(Entries(results)) :
            Entries(results)[i].risk_level = "Ignored" =>
                /\ Entries(results)[i].risk_score = 0
                /\ Entries(results)[i].reason # <<"Processed successfully">>

\* an ignored charge that would have scored above zero had it been enabled
C5_Witness ==
    /\ ChargeWalked /\ OneEntry
    /\ LookbackPasses /\ TypeEnabled /\ ~DispositionEnabled
    /\ _calculate_risk_score(TheCharge, TheOffenseDate).value > 0
    /\ results.Ignored = <<TheEntry>>
    /\ TheEntry.risk_score = 0

(* C6 *)

\* C6: no charge is given the level Clean: an entry that carries a charge has
\* one of the levels Ignored, Low, Medium, High and lies in the bucket of
\* that level, and every entry of the Clean bucket is the made-up record
\* with case number "N/A" and score 0.0.
C6_CleanOnlySynthetic ==
    Returned =>
        /\ \A i \in 1..Len(results.Clean) :
              /\ IsSynthetic(results.Clean[i])
              /\ results.Clean[i].risk_level = "Clean"
              /\ results.Clean[i].risk_score = 0
        /\ \A level \in {"Ignored", "Low", "Medium", "High"} :
              \A i \in 1..Len(results[level]) :
                  /\ ~IsSynthetic(results[level][i])
                  /\ results[level][i].risk_level = level

\* a scored charge whose score is below the low-risk minimum, in the Low
\* bucket, with an empty Clean bucket
C6_Witness ==
    /\ ChargeWalked /\ OneEntry /\ Scored(TheEntry)
    /\ TheEntry.risk_score < Points(config.scoring_rules.thresholds.low_risk.min)
    /\ results.Low = <<TheEntry>>
    /\ results.Clean = <<>>

(* C7 *)

\* C7 as stated: the score of every scored charge, under every
\* configuration, is non-negative and has at most two decimal places.
C7_ScoreNonNegativeTwoDecimals ==
    (ChargeWalked /\ OneEntry /\ Scored(TheEntry)) =>
        /\ TheEntry.risk_score >= 0
        /\ TheEntry.risk_score % 10 = 0

(* C8 *)

\* C8: for the category "unclassified", in any case of letters, and every
\* score above 0, the level is High whatever the thresholds are, also when
\* the score is below high_risk.min.
C8_UnclassifiedPositiveIsHigh ==
    (phase = "classified" /\ Lower(level_category) = "unclassified"
        /\ level_score > 0) =>
        level_result = "High"

\* High for an "unclassified" score above 0 and below every threshold
C8_Witness ==
    /\ phase = "classified"
    /\ level_category = "UNCLASSIFIED"
    /\ level_score > 0
    /\ level_score < Points(config.scoring_rules.thresholds.low_risk.min)
    /\ level_score < Points(config.scoring_rules.thresholds.medium_risk.min)
    /\ level_score < Points(config.scoring_rules.thresholds.high_risk.min)
    /\ level_score < Points(config.scoring_rules.thresholds.critical_risk.min)
    /\ level_result = "High"

(* C9 *)

\* the charge is "unclassified" and passes the three checks
UnclassifiedEligible ==
    /\ ChargeProcessed
    /\ Lower(TheCategory) = "unclassified"
    /\ LookbackPasses /\ TypeEnabled /\ DispositionEnabled

\* the score from base 35: 35 * weight * multiplier * 0.5 * recency, rounded
ScoreFromBase35 ==
    Round2((35 * SeverityWeightOf(TheChargeType)
               * impact_multipliers(RiskImpactOf(TheDisposition)) * 50
               * recency_factor(DeltaDays(now, _parse_date(TheOffenseDate).value)))
           \div 10)

\* C9 as stated: every "unclassified" charge that passes the three checks is
\* scored from base 35 and emitted as High, under every configuration of
\* thresholds, severity weights and risk impacts.
C9_UnclassifiedAlwaysHigh ==
    UnclassifiedEligible =>
        /\ Returned /\ OneEntry /\ Scored(TheEntry)
        /\ TheEntry.risk_score = ScoreFromBase35
        /\ TheEntry.risk_level = "High"

\* C9 amended: every "unclassified" charge that passes the three checks is
\* scored from base 35, and is emitted as High, whatever the thresholds and
\* risk impacts, when the severity weight of its charge type is positive;
\* with a weight of 0 or less the score is not above 0.
C9_UnclassifiedHighForPositiveWeight ==
    UnclassifiedEligible =>
        /\ Returned /\ OneEntry /\ Scored(TheEntry)
        /\ TheEntry.risk_score = ScoreFromBase35
        /\ SeverityWeightOf(TheChargeType) > 0 => TheEntry.risk_level = "High"
        /\ SeverityWeightOf(TheChargeType) <= 0 => TheEntry.risk_score <= 0

\* an "unclassified" charge emitted as High with a score below high_risk.min
\* and critical_risk.min
C9_Witness ==
    /\ UnclassifiedEligible /\ Returned /\ OneEntry
    /\ TheEntry.risk_level = "High"
    /\ TheEntry.risk_score = ScoreFromBase35
    /\ TheEntry.risk_score < Points(config.scoring_rules.thresholds.high_risk.min)
    /\ TheEntry.risk_score < Points(config.scoring_rules.thresholds.critical_risk.min)

(* C10 *)

\* C10: for a document with no results key or an empty results list the call
\* returns a mapping whose Clean bucket holds exactly one made-up entry, with
\* reason "No criminal history found" and score 0.0, and whose Ignored, Low,
\* Medium and High buckets are empty.
C10_NoResultsOneClean ==
    (phase \in {"returned", "raised"} /\ ~HasResults(data)) =>
        /\ Returned
        /\ Len(results.Clean) = 1
        /\ IsSynthetic(results.Clean[1])
        /\ results.Clean[1].risk_level = "Clean"
        /\ results.Clean[1].risk_score = 0
        /\ results.Clean[1].reason = <<"No criminal history found">>
        /\ results.Ignored = <<>> /\ results.Low = <<>>
        /\ results.Medium = <<>> /\ results.High = <<>>

\* the mapping returned for a document whose results list is empty
C10_Witness ==
    /\ Returned
    /\ "results" \in DOMAIN data /\ data.results = <<>>
    /\ Len(results.Clean) = 1
    /\ results.Clean[1].reason = <<"No criminal history found">>

(* C11 *)

RiskLevelKeys == {"Ignored", "Low", "Medium", "High", "Clean"}

\* C11: every mapping returned has exactly the five keys Ignored, Low,
\* Medium, High and Clean, and every ProcessedCase under a key has that key
\* as its risk level.
C11_FiveKeysLevelIsKey ==
    Returned =>
        /\ DOMAIN results = RiskLevelKeys
        /\ \A k \in RiskLevelKeys :
              \A i \in 1..Len(results[k]) : results[k][i].risk_level = k

\* a mapping returned with entries under two of Low, Medium, High and one
\* under Ignored
C11_Witness ==
    /\ Returned
    /\ results.Ignored # <<>>
    /\ Cardinality({k \in {"Low", "Medium", "High"} : results[k] # <<>>}) >= 2

(* C12 *)

\* C12: for a document with a non-empty results list, the mapping returned
\* holds the made-up Clean entry, once, with the reason "No records meet the
\* configured criteria", exactly when Low, Medium, High and Ignored are all
\* empty after the walk; when a charge was Ignored and none was scored the
\* mapping holds Ignored entries only.
C12_CleanIffNothingEmitted ==
    (Returned /\ HasResults(data)) =>
        /\ results.Clean # <<>> <=>
              (/\ results.Low = <<>> /\ results.Medium = <<>>
               /\ results.High = <<>> /\ results.Ignored = <<>>)
        /\ results.Clean # <<>> =>
              /\ Len(results.Clean) = 1
              /\ IsSynthetic(results.Clean[1])
              /\ results.Clean[1].reason = <<"No records meet the configured criteria">>

\* a mapping returned after a walk that ignored a charge and scored none:
\* Ignored entries only
C12_Witness ==
    /\ Returned /\ HasResults(data)
    /\ results.Ignored # <<>>
    /\ results.Low = <<>> /\ results.Medium = <<>> /\ results.High = <<>>
    /\ results.Clean = <<>>

(* C13 *)

\* C13: the overall level is High when the High bucket is not empty, else
\* Medium when the Medium bucket is not empty, else Low when the Low bucket
\* is not empty, else Clean, also with Ignored entries only and with every
\* bucket empty; a Medium entry outranks any number of Low entries.
C13_OverallRiskPriority ==
    phase = "assessed" =>
        /\ Len(processed_cases.High) > 0 => overall_risk = "High"
        /\ (Len(processed_cases.High) = 0 /\ Len(processed_cases.Medium) > 0) =>
              overall_risk = "Medium"
        /\ (/\ Len(processed_cases.High) = 0 /\ Len(processed_cases.Medium) = 0
            /\ Len(processed_cases.Low) > 0) =>
              overall_risk = "Low"
        /\ (/\ Len(processed_cases.High) = 0 /\ Len(processed_cases.Medium) = 0
            /\ Len(processed_cases.Low) = 0) =>
              overall_risk = "Clean"

\* Medium for one Medium entry against the most Low entries there are
C13_Witness ==
    /\ phase = "assessed"
    /\ processed_cases.High = <<>>
    /\ Len(processed_cases.Medium) = 1
    /\ Len(processed_cases.Low) = MaxBucketLen
    /\ overall_risk = "Medium"

(* C14 *)

\* C14: the recommendation is chosen by the overall level alone and cites the
\* size of the bucket of that level: REJECT with the High count, REVIEW
\* REQUIRED with the Medium count, CONDITIONAL APPROVAL with the Low count,
\* APPROVE with the Ignored count when it is above 0 and the "no concerning
\* records" text when it is 0, MANUAL REVIEW for any other level.
C14_RecommendationByLevel ==
    phase = "recommended" =>
        /\ overall_risk = "High" =>
              recommendation =
                  <<"REJECT - High risk profile identified. ",
                    ToString(Len(processed_cases.High)),
                    " high-risk case(s) require immediate review and likely disqualification.">>
        /\ overall_risk = "Medium" =>
              recommendation =
                  <<"REVIEW REQUIRED - Medium risk profile. ",
                    ToString(Len(processed_cases.Medium)),
                    " case(s) need manual review before making a decision.">>
        /\ overall_risk = "Low" =>
              recommendation =
                  <<"CONDITIONAL APPROVAL - Low risk profile. ",
                    ToString(Len(processed_cases.Low)),
                    " minor case(s) identified but may be acceptable depending on role requirements.">>
        /\ (overall_risk = "Clean" /\ Len(processed_cases.Ignored) > 0) =>
              recommendation =
                  <<"APPROVE - Clean background check. ",
                    ToString(Len(processed_cases.Ignored)),
                    " case(s) were outside assessment criteria.">>
        /\ (overall_risk = "Clean" /\ Len(processed_cases.Ignored) = 0) =>
              recommendation =
                  <<"APPROVE - Clean background check with no concerning records found.">>
        /\ overall_risk \notin {"High", "Medium", "Low", "Clean"} =>
              recommendation =
                  <<"MANUAL REVIEW - Unable to determine risk level automatically.">>

\* the level alone decides: REVIEW REQUIRED citing the Medium count for the
\* level Medium although the High bucket is not empty
C14_Witness ==
    /\ phase = "recommended"
    /\ overall_risk = "Medium"
    /\ Len(processed_cases.High) = 1
    /\ Len(processed_cases.Medium) = 2
    /\ recommendation[2] = "2"

(* C19 *)

\* C19: for every bucket mapping the summary's total_cases is the sum of the
\* sizes of the five buckets, the made-up Clean entry counted,
\* risk_distribution gives each of the five keys its bucket size, and
\* highest_risk_score is the greatest score of all entries of all buckets,
\* 0.0 when none is above 0.
C19_SummaryCountsAndMaximum ==
    phase = "summarised" =>
        /\ summary.total_cases =
               Len(processed_cases.Ignored) + Len(processed_cases.Low)
               + Len(processed_cases.Medium) + Len(processed_cases.High)
               + Len(processed_cases.Clean)
        /\ DOMAIN summary.risk_distribution = RiskLevelKeys
        /\ \A k \in RiskLevelKeys :
              summary.risk_distribution[k] = Len(processed_cases[k])
        /\ \A e \in Range(Entries(processed_cases)) :
              e.risk_score <= summary.highest_risk_score
        /\ \/ summary.highest_risk_score = 0
           \/ \E e \in Range(Entries(processed_cases)) :
                  e.risk_score = summary.highest_risk_score /\ e.risk_score > 0

\* a summary whose highest score lies in the Medium bucket, above the scores
\* of the High bucket, and whose total counts a Clean entry
C19_Witness ==
    /\ phase = "summarised"
    /\ processed_cases.High # <<>> /\ processed_cases.Clean # <<>>
    /\ summary.highest_risk_score = 39380
    /\ \A i \in 1..Len(processed_cases.High) :
          processed_cases.High[i].risk_score < 39380
    /\ summary.total_cases >= 3

(* C17 *)

\* C17: process_criminal_check is total over record documents: whatever is
\* odd about a charge (an offense date that does not parse or is missing, a
\* category, type, subcategory or disposition that is unknown or missing, a
\* dispositions list that is missing or empty) the call returns a mapping
\* and raises nothing, and a charge without a disposition to look at is
\* emitted as Ignored with a reason.
C17_TotalOverAnomalies ==
    phase \in {"returned", "raised"} =>
        /\ Returned
        /\ (ChargeWalked /\ ~HasDisposition) =>
              /\ OneEntry
              /\ TheEntry.risk_level = "Ignored"
              /\ TheEntry.reason # <<"Processed successfully">>

(* C20 *)

\* the multiplier of a risk impact, in tenths
DispositionMultiplier(impact) ==
    IF impact = "high" THEN 15
    ELSE IF impact = "medium" THEN 12
    ELSE IF impact = "low" THEN 10
    ELSE IF impact = "none" THEN 5
    ELSE 10

\* the base score of the charge: of its tier, 35 for "unclassified"
TheBaseScore ==
    BaseScore(Get(TheCharge, "category", "Unclassified"),
              _get_csv_risk_score(Get(TheCharge, "category", "Unclassified"),
                                  Get(TheCharge, "subcategory", "")))

\* round(baseScore * (severityWeight / 2) * dispositionMultiplier
\*       * recencyMultiplier, 2), in thousandths
ExpectedScore ==
    Round2((TheBaseScore * SeverityWeightOf(TheChargeType) * 500
                * DispositionMultiplier(RiskImpactOf(TheDisposition))
                * recency_factor(DeltaDays(now, _parse_date(TheOffenseDate).value)))
           \div 100)

\* C20: the score of every scored charge is round(baseScore *
\* (severityWeight / 2) * dispositionMultiplier * recencyMultiplier, 2), the
\* weight being that of the first charge-type rule matching the type (1
\* without one) and the multiplier 1.5, 1.2, 1.0 or 0.5 for the impact high,
\* medium, low or none and 1.0 for any other impact.
C20_ScoreFormula ==
    (ChargeWalked /\ OneEntry /\ Scored(TheEntry)) =>
        TheEntry.risk_score = ExpectedScore

\* a scored charge whose disposition has an impact outside the table
C20_Witness ==
    /\ ChargeWalked /\ OneEntry /\ Scored(TheEntry)
    /\ RiskImpactOf(TheDisposition) \notin {"high", "medium", "low", "none"}
    /\ TheEntry.risk_score = ExpectedScore
    /\ TheEntry.risk_score # 0

----------------------------------------------------------------------------
(* The life of a processor *)

\* two calls were made on the document in hand
CalledTwice == Len(history) = 2

\* the two calls came to the same end: the same exception, or the same
\* mapping, buckets, levels and scores alike
SameOutcome ==
    /\ history[1].exc = history[2].exc
    /\ history[1].results = history[2].results

\* C15 as stated: two calls on the same processor with the same document
\* return identical buckets, levels and scores, whenever they are made.
C15_SameResultTwice == CalledTwice => SameOutcome

\* C15: two calls on the same processor with the same document, made on the
\* same calendar day, come to the same end; the result depends on the
\* document, the configuration, the cutoff fixed at construction and the day
\* of the call.
C15_SameResultSameDay ==
    (CalledTwice /\ history[1].at.day = history[2].at.day) => SameOutcome

\* a scored charge processed twice on one day, at two times of that day
C15_Witness ==
    /\ CalledTwice
    /\ history[1].at.day = history[2].at.day
    /\ history[1].at # history[2].at
    /\ history[2].exc = "none"
    /\ \E k \in {"High", "Medium", "Low"} :
           history[2].results[k] # <<>>
    /\ SameOutcome

\* the keys a configuration must have
RequiredKeys ==
    {"search_parameters", "record_categories", "charge_classification",
     "disposition_filters", "risk_scoring", "scoring_rules"}

\* a processor stands: its construction returned
Constructed == phase \notin {"unbuilt", "failed"}

\* C16: every configuration error makes the construction fail: a processor
\* that stands has a configuration with every required key, the lookback
\* period among them.
C16_ConstructedMeansComplete ==
    Constructed =>
        /\ RequiredKeys \subseteq DOMAIN config
        /\ HasSelectedPeriod(config)

\* C18: process_criminal_check and get_summary leave the processor as it was
\* constructed: in every step of a processor that stands, config,
\* lookback_years and cutoff_date keep their values, and the document in hand
\* is the document that was handed in.
C18_CallsLeaveProcessorUnchanged ==
    [][Constructed =>
          /\ config' = config
          /\ lookback_years' = lookback_years
          /\ cutoff_date' = cutoff_date
          /\ (data # None /\ data' # None) => data' = data]_vars

\* two calls a day apart and a summary between or after them, the cutoff
\* still that of the day of construction
C18_Witness ==
    /\ CalledTwice
    /\ history[2].at.day > history[1].at.day
    /\ summary # None
    /\ cutoff_date.day = ToOrdinal(2026, 11, 4) - lookback_years * 365
    /\ "results" \in DOMAIN data /\ data.results # <<>>

----------------------------------------------------------------------------
(* The scoring helpers called alone *)

\* the tier lookup was called alone
TierCall == "fn" \in DOMAIN score_call /\ score_call.fn = "_get_csv_risk_score"

\* the score calculation was called alone
ScoreCall == "fn" \in DOMAIN score_call /\ score_call.fn = "_calculate_risk_score"

\* the score calculation was called alone and returned a score
ScoreReturned == ScoreCall /\ score_call.result.exc = "none"

\* the tier of a category and a subcategory: the entry of the pair in lower
\* case, else the entry of the category alone, else High for the five
\* categories and Med for any other
TierOf(category, subcategory) ==
    IF <<Lower(category), Lower(subcategory)>> \in DOMAIN risk_mapping
    THEN risk_mapping[<<Lower(category), Lower(subcategory)>>]
    ELSE IF <<Lower(category), "">> \in DOMAIN risk_mapping
    THEN risk_mapping[<<Lower(category), "">>]
    ELSE IF Lower(category) \in
            {"violence", "sexual", "homicide", "security", "unclassified"}
    THEN "High"
    ELSE "Med"

\* the base score: 35 for "unclassified", else 30, 15 or 5 by the tier
BaseScoreOf(category, subcategory) ==
    IF Lower(category) = "unclassified" THEN 35
    ELSE CASE TierOf(category, subcategory) = "High" -> 30
           [] TierOf(category, subcategory) = "Med" -> 15
           [] TierOf(category, subcategory) = "Low" -> 5

\* the charge of the score call: its category, subcategory, and what the
\* configuration gives its type and its disposition
CallCategory == Get(score_call.charge, "category", "Unclassified")
CallSubcategory == Get(score_call.charge, "subcategory", "")
CallWeight == _get_charge_type_weight(Get(score_call.charge, "type", "unknown"))
CallMultiplier ==
    impact_multipliers(_get_disposition_risk_impact(
        FirstDisposition(score_call.charge).value))

\* the days from the offense date of the score call to the clock
CallDays == DeltaDays(now, _parse_date(score_call.offense_date).value)

\* the offense date of the score call is a date
CallDateParses == _parse_date(score_call.offense_date).exc = "none"

\* base * (weight / 2) * multiplier * recency, rounded, in thousandths; the
\* multiplier and the recency in tenths, the recency 10 when there is none
ScoreFrom(base, recency) ==
    Round2((base * CallWeight * 500 * CallMultiplier * recency) \div 100)

\* C21: the tier lookup is case-insensitive, the entry of the pair before
\* the entry of the category alone, and without an entry High for violence,
\* sexual, homicide, security and unclassified and Med for any other
\* category; the base score is 30, 15 or 5 for High, Med or Low and 35 for
\* "unclassified", and the score comes from it whatever base_weight the
\* configuration gives the category.
C21_TierAndBaseScore ==
    /\ TierCall =>
           score_call.result = TierOf(score_call.category, score_call.subcategory)
    /\ ScoreReturned =>
           score_call.result.value =
               ScoreFrom(BaseScoreOf(CallCategory, CallSubcategory),
                         IF CallDateParses THEN recency_factor(CallDays) ELSE 10)

\* a charge of "VEHICLES & TRAFFIC" / "SPEEDING" scored from the base 5 of
\* the pair's entry, under a configuration that gives the category the
\* base_weight 10
C21_Witness ==
    /\ ScoreReturned
    /\ CallCategory = "VEHICLES & TRAFFIC" /\ CallSubcategory = "SPEEDING"
    /\ CallDateParses
    /\ config.risk_scoring.categories[1].category = "Vehicles & Traffic"
    /\ config.risk_scoring.categories[1].base_weight = 10
    /\ BaseScoreOf(CallCategory, CallSubcategory) = 5
    /\ score_call.result.value = ScoreFrom(5, recency_factor(CallDays))
    /\ score_call.result.value > 0

\* the whole days from the offense date, a midnight, to the clock
WholeDaysElapsed == now.day - _parse_date(score_call.offense_date).value.day

\* the multiplier of the days elapsed, in tenths: 1.5 up to one year of 365
\* days, 1.2 up to three, 1.0 up to five, 0.8 beyond
RecencyMultiplier ==
    CASE WholeDaysElapsed <= 365 -> 15
      [] WholeDaysElapsed > 365 /\ WholeDaysElapsed <= 1095 -> 12
      [] WholeDaysElapsed > 1095 /\ WholeDaysElapsed <= 1825 -> 10
      [] WholeDaysElapsed > 1825 -> 8

\* the score without a recency multiplier
ScoreWithoutRecency == ScoreFrom(BaseScoreOf(CallCategory, CallSubcategory), 10)

\* C22: the recency multiplier comes from the whole days between the offense
\* date and the scoring instant over 365: 1.5 up to 1 year, 1.2 up to 3, 1.0
\* up to 5 and 0.8 beyond, a boundary in the more recent band; an offense
\* date that does not parse raises nothing and leaves the multiplier out.
C22_RecencyMultiplier ==
    /\ (ScoreReturned /\ CallDateParses) =>
           score_call.result.value =
               ScoreFrom(BaseScoreOf(CallCategory, CallSubcategory), RecencyMultiplier)
    /\ (ScoreCall /\ ~CallDateParses) =>
           /\ score_call.result.exc \in {"none", "IndexError"}
           /\ score_call.result.exc = "IndexError" <=>
                  Get(score_call.charge, "dispositions", <<None>>) = <<>>
           /\ score_call.result.exc = "none" =>
                  score_call.result.value = ScoreWithoutRecency

\* a charge scored 1095 days and some hours after its offense date, with
\* the multiplier 1.2 of the three-year band
C22_Witness ==
    /\ ScoreReturned /\ CallDateParses
    /\ now.tod = 1
    /\ WholeDaysElapsed = 1095
    /\ score_call.result.value =
           ScoreFrom(BaseScoreOf(CallCategory, CallSubcategory), 12)
    /\ score_call.result.value # ScoreWithoutRecency

----------------------------------------------------------------------------
(* The classifier called alone *)

\* the classifier was called alone on a category other than "unclassified"
ClassifiedByThresholds ==
    phase = "classified" /\ Lower(level_category) # "unclassified"

\* the level of a score by critical_risk.min, high_risk.min and
\* medium_risk.min, taken in this order
LevelByThresholds(score) ==
    IF score >= Points(config.scoring_rules.thresholds.critical_risk.min) THEN "High"
    ELSE IF score >= Points(config.scoring_rules.thresholds.high_risk.min) THEN "High"
    ELSE IF score >= Points(config.scoring_rules.thresholds.medium_risk.min) THEN "Medium"
    ELSE "Low"

\* C23: for a category other than "unclassified" the level is High for a
\* score of critical_risk.min or more, else High for high_risk.min or more,
\* else Medium for medium_risk.min or more, else Low; low_risk.min decides
\* nothing.
C23_ThresholdsInDescendingOrder ==
    ClassifiedByThresholds => level_result = LevelByThresholds(level_score)

\* Low for a score below low_risk.min, and Low for a score of low_risk.min
\* or more, is the same level: here a score below low_risk.min and below
\* medium_risk.min
C23_Witness ==
    /\ ClassifiedByThresholds
    /\ level_score < Points(config.scoring_rules.thresholds.low_risk.min)
    /\ level_score < Points(config.scoring_rules.thresholds.medium_risk.min)
    /\ level_score < Points(config.scoring_rules.thresholds.high_risk.min)
    /\ level_score < Points(config.scoring_rules.thresholds.critical_risk.min)
    /\ level_score > 0
    /\ level_result = "Low"

\* the levels in their order: Low below Medium below High
LevelRank(level) ==
    CASE level = "Low" -> 1 [] level = "Medium" -> 2 [] level = "High" -> 3

\* C26: for a fixed category and any thresholds, ascending or not, the level
\* is monotone in the score: the level of a lower score is never above, and
\* the level of a higher score never below, the level of the score
\* classified.
C26_LevelMonotoneInScore ==
    phase = "classified" =>
        \A s \in LevelScores :
            /\ s <= level_score =>
                   LevelRank(_determine_risk_level(s, level_category))
                       <= LevelRank(level_result)
            /\ s >= level_score =>
                   LevelRank(_determine_risk_level(s, level_category))
                       >= LevelRank(level_result)

\* thresholds out of order, medium_risk.min above high_risk.min above
\* critical_risk.min, and a score between them classified High while a lower
\* score is Low
C26_Witness ==
    /\ ClassifiedByThresholds
    /\ config.scoring_rules.thresholds.medium_risk.min
           > config.scoring_rules.thresholds.high_risk.min
    /\ config.scoring_rules.thresholds.high_risk.min
           > config.scoring_rules.thresholds.critical_risk.min
    /\ level_score >= Points(config.scoring_rules.thresholds.critical_risk.min)
    /\ level_score < Points(config.scoring_rules.thresholds.high_risk.min)
    /\ level_result = "High"
    /\ \E s \in LevelScores :
           s < level_score /\ _determine_risk_level(s, level_category) = "Low"

----------------------------------------------------------------------------
(* The engine *)

\* a run of the engine came to its end
EngineRan == engine_run # None

\* the run returned a RuleEngineResult
EngineReturned == EngineRan /\ engine_run.outcome.exc = "none"

\* the fetch of the run returned a JSON object
FetchReturnedDocument ==
    engine_run.fetched # None /\ engine_run.fetched.kind = "object"

\* the steps of the scoring core and of the assessment
CoreSteps ==
    {"process_criminal_check", "get_summary", "_calculate_overall_risk",
     "_generate_recommendation"}

\* C24: the scoring core is called only after the fetch returned a
\* document; a fetch that raises, or any later step that raises, ends the
\* run with RuleEngineError, no later step called and no result returned.
C24_CoreOnlyAfterFetch ==
    EngineRan =>
        /\ engine_run.trace = SubSeq(EngineSteps, 1, Len(engine_run.trace))
        /\ engine_run.outcome.exc \in {"none", "RuleEngineError"}
        /\ Range(engine_run.trace) \cap CoreSteps # {} => FetchReturnedDocument
        /\ ~FetchReturnedDocument =>
               /\ engine_run.trace = <<"run_instant_criminal_check">>
               /\ engine_run.outcome.exc = "RuleEngineError"
        /\ engine_run.outcome.exc = "RuleEngineError" =>
               Range(engine_run.trace) \cap
                   {"get_summary", "_calculate_overall_risk",
                    "_generate_recommendation"} = {}
        /\ EngineReturned <=> engine_run.trace = EngineSteps

\* the request went out and the API answered with an error: the run raised
\* RuleEngineError with nothing of the core called
C24_Witness ==
    /\ EngineRan
    /\ engine_run.sent # <<>>
    /\ engine_run.fetched = None
    /\ engine_run.trace = <<"run_instant_criminal_check">>
    /\ engine_run.outcome.exc = "RuleEngineError"

\* the result of the run
EngineResult == engine_run.outcome.value

\* C28: on every mapping process_criminal_check produces, the overall level
\* is High, Medium, Low or Clean and never Ignored, it is Clean exactly when
\* the High, Medium and Low buckets are empty, and the recommendation of a
\* run is never the "MANUAL REVIEW" one.
C28_OverallNeverIgnored ==
    EngineReturned =>
        /\ EngineResult.overall_risk_level \in {"High", "Medium", "Low", "Clean"}
        /\ EngineResult.overall_risk_level = "Clean" <=>
               \A level \in {"High", "Medium", "Low"} :
                   EngineResult.processed_cases[level] = <<>>
        /\ EngineResult.recommendation[1] #
               "MANUAL REVIEW - Unable to determine risk level automatically."

\* a run on a document whose charges were all ignored: the level is Clean
\* and the recommendation is the approval that counts the ignored cases
C28_Witness ==
    /\ EngineReturned
    /\ EngineResult.processed_cases["Ignored"] # <<>>
    /\ EngineResult.processed_cases["Clean"] = <<>>
    /\ EngineResult.overall_risk_level = "Clean"
    /\ EngineResult.recommendation[1] = "APPROVE - Clean background check. "

\* C25: every mapping process_criminal_check returns holds an entry: the
\* Clean bucket has at most one, and has one exactly when the Ignored, Low,
\* Medium and High buckets are empty; so get_summary counts at least one
\* case for every document, one without records included.
C25_MappingNeverEmpty ==
    EngineReturned =>
        /\ \E k \in DOMAIN EngineResult.processed_cases :
               EngineResult.processed_cases[k] # <<>>
        /\ Len(EngineResult.processed_cases["Clean"]) <= 1
        /\ EngineResult.processed_cases["Clean"] # <<>> <=>
               \A k \in {"Ignored", "Low", "Medium", "High"} :
                   EngineResult.processed_cases[k] = <<>>
        /\ EngineResult.summary.total_cases >= 1

\* a document without a results key: one Clean entry, and a summary that
\* counts one case
C25_Witness ==
    /\ EngineReturned
    /\ "results" \notin DOMAIN EngineResult.checkr_response
    /\ Len(EngineResult.processed_cases["Clean"]) = 1
    /\ EngineResult.summary.total_cases = 1

----------------------------------------------------------------------------
(* The cutoff and the clock *)

\* both calls on the document in hand returned, each with one entry for
\* the one charge of the document
TwoEntries ==
    /\ CalledTwice
    /\ history[1].exc = "none" /\ history[2].exc = "none"
    /\ Len(NonSynthetic(history[1].results)) = 1
    /\ Len(NonSynthetic(history[2].results)) = 1

\* the entry of the charge in the i-th call
EntryOfCall(i) == NonSynthetic(history[i].results)[1]

\* the i-th call found the charge outside the lookback period
OutsideLookback(i) ==
    EntryOfCall(i).risk_level = "Ignored" /\ EntryOfCall(i).reason = ReasonLookback

\* the recency factor at the time of the i-th call, in tenths
RecencyAt(i) ==
    recency_factor(DeltaDays(history[i].at,
                             _parse_date(EntryOfCall(i).offense_date).value))

\* the score of the charge at the time of the i-th call, under the rules of
\* the life configurations: severity weight 1, and the multiplier 1.5 of the
\* impact "high"
LifeScoreAt(i) ==
    Round2((BaseScoreOf(EntryOfCall(i).category, EntryOfCall(i).subcategory)
                * 500 * 15 * RecencyAt(i)) \div 100)

\* C27: the cutoff is fixed at construction, construction time less
\* lookback years times 365 days; however the clock moves between two
\* calls, a charge passes the lookback check in both or in neither, while
\* its recency multiplier is that of the clock at each call.
C27_CutoffFixedRecencyMoves ==
    /\ Constructed =>
           /\ cutoff_date.day = ToOrdinal(2026, 11, 4) - lookback_years * 365
           /\ lookback_years =
                  config.search_parameters.lookback_period.selected_period
    /\ TwoEntries =>
           /\ OutsideLookback(1) <=> OutsideLookback(2)
           /\ \A i \in {1, 2} :
                  Scored(EntryOfCall(i)) => EntryOfCall(i).risk_score = LifeScoreAt(i)

\* a charge of 2025-11-04 under a lookback of one year fixed at midnight of
\* 2026-11-04: it passes the check that day and the day after, and is
\* scored with the multiplier 1.5 the first time and 1.2 the second
C27_Witness ==
    /\ TwoEntries
    /\ lookback_years = 1
    /\ EntryOfCall(1).offense_date = "20251104"
    /\ history[2].at.day > history[1].at.day
    /\ DtGeq(MinusDays(history[2].at, 365), cutoff_date)
    /\ ~DtGeq(_parse_date("20251104").value, MinusDays(history[2].at, 365))
    /\ Scored(EntryOfCall(1)) /\ Scored(EntryOfCall(2))
    /\ RecencyAt(1) = 15 /\ RecencyAt(2) = 12
    /\ EntryOfCall(1).risk_score > EntryOfCall(2).risk_score

----------------------------------------------------------------------------
(* The token *)

\* the token of a request had expired, by the issue time and the lifetime
\* the client held for it, when the request went out
SentExpired(request) ==
    request.at > request.token.token_issued_at + request.token.expires_in
                     - TokenBuffer

\* C29: no request of a run goes out with an expired token: past
\* token_issued_at + expires_in - 300 seconds _make_request raises before
\* anything is sent, and every later run fails, the scoring core not
\* called, until refresh_token has succeeded.
C29_NoRequestWithExpiredToken ==
    EngineRan =>
        /\ \A i \in 1..Len(engine_run.sent) : ~SentExpired(engine_run.sent[i])
        /\ is_token_expired(session_token, seconds) =>
               /\ engine_run.outcome.exc = "RuleEngineError"
               /\ engine_run.trace = <<"run_instant_criminal_check">>

----------------------------------------------------------------------------
(* The desktop UI *)

\* the workers inside run_complete_background_check
WorkersInFlight == Cardinality(worker_threads)

\* this step enables the Run button that was disabled
RunButtonReenabled == run_button = "disabled" /\ run_button' = "normal"

\* this step runs a callback that a worker scheduled after its engine call
\* had returned or raised
ScheduledCallbackRuns ==
    /\ after_queue # <<>>
    /\ after_queue' = Tail(after_queue)
    /\ Head(after_queue).callback \in {"display_results", "handle_error"}
    /\ Head(after_queue).thread \notin worker_threads

====
